---- MODULE Spec2Model ----
(***************************************************************************)
(* Model of croncast's job scheduler (scheduler.ts): the module-level     *)
(* registries tasks / jobStates / activeRecordings / completedRecordings, *)
(* the exported operations on them, the cron timers created by            *)
(* startScheduler and the executions started by executeJob.               *)
(*                                                                         *)
(* Node runs one handler at a time, so every action below is one stretch  *)
(* of synchronous code: from the entry of a handler to its first await,   *)
(* or from the resumption after an await to the end of the function.      *)
(***************************************************************************)
EXTENDS Integers, Sequences, FiniteSets, TLC

(* ---- bounds of the model ---------------------------------------------- *)
MaxExecs == 2

MaxTime == 2

MaxStarts == 2

(* ---- values ------------------------------------------------------------ *)
\* a nullable field holds NULL or Some(v)
NULL == <<>>

Some(v) == <<v>>

MAX_COMPLETED == 50

\* job.schedule: absent, a string croner parses, a string croner rejects
NoSchedule == "undefined"

GoodCron == "0 0 * * *"

BadCron == "not a cron"

\* An optional field of a JobConfig is read by its truthiness (if (job.url),
\* job.captureFps || 2, job.viewportWidth && job.viewportHeight): an absent
\* string is modelled as the empty string, an absent number as 0.
NoString == << >>

Job1 == [id |-> "j1", name |-> <<"a", ":">>, schedule |-> GoodCron, durationSeconds |-> 10,
         url |-> <<"http:", "site", "a">>, urlPattern |-> NoString, captureFps |-> 0,
         viewportWidth |-> 1280, viewportHeight |-> 720]

Job2 == [id |-> "j2", name |-> <<"a", ":">>, schedule |-> NoSchedule, durationSeconds |-> 1,
         url |-> NoString, urlPattern |-> <<"site", "b">>, captureFps |-> 4,
         viewportWidth |-> 0, viewportHeight |-> 0]

Job3 == [id |-> "j3", name |-> <<"a", "/">>, schedule |-> BadCron, durationSeconds |-> 1,
         url |-> <<"http:", "site", "c">>, urlPattern |-> <<"site", "c">>, captureFps |-> 0,
         viewportWidth |-> 800, viewportHeight |-> 600]

Job4 == [id |-> "j1", name |-> <<"b">>, schedule |-> GoodCron, durationSeconds |-> 10,
         url |-> <<"http:", "site", "a">>, urlPattern |-> NoString, captureFps |-> 0,
         viewportWidth |-> 800, viewportHeight |-> 0]

\* a manual job whose duration is longer than the drain timeout
Job5 == [id |-> "j5", name |-> <<"c">>, schedule |-> NoSchedule, durationSeconds |-> 12,
         url |-> <<"http:", "site", "a">>, urlPattern |-> NoString, captureFps |-> 0,
         viewportWidth |-> 0, viewportHeight |-> 0]

\* AppConfig.jobs of the configurations the application is run with;
\* validateConfig checks neither ids nor names for uniqueness
ConfigA == <<Job1, Job3, Job2>>

ConfigB == <<Job4>>

ConfigC == <<Job5>>

Configs == {ConfigA, ConfigB}

\* job ids a caller may pass to triggerJob ("zz" is in no configuration)
TriggerIds == {"j1", "j2", "j3", "zz"}

(* ---- pure helpers ------------------------------------------------------ *)
\* the characters of /[<>:"/\\|?*\x00-\x1f]/
ForbiddenChars == {"<", ">", ":", "\"", "/", "\\", "|", "?", "*", "\t", "\n", "\r", "\f"}

sanitizeForFilename(name) ==
    [i \in DOMAIN name |-> IF name[i] \in ForbiddenChars THEN "_" ELSE name[i]]

\* the time-of-day part of Date.toISOString() at millisecond t: hh:mm:ss.mmm
toISOString(t) ==
    << ToString((t \div 3600000) % 24), ":", ToString((t \div 60000) % 60), ":",
       ToString((t \div 1000) % 60), ".", ToString(t % 1000) >>

makeTimestamp(t) == SelectSeq(toISOString(t), LAMBDA c : c # ":")

InstanceId(name, t) == sanitizeForFilename(name) \o <<"_">> \o makeTimestamp(t)

\* new Cron(schedule) throws on a malformed expression
CronParses(schedule) == schedule = GoodCron

\* mutant of FindJob: an id that matches no job selects the first job
FindJobOrFirst(cfg, jobId) ==
    IF \E i \in DOMAIN cfg : cfg[i].id = jobId
    THEN CHOOSE i \in DOMAIN cfg : cfg[i].id = jobId /\ \A k \in 1..(i - 1) : cfg[k].id # jobId
    ELSE 1

\* config.jobs.find(j => j.id === jobId): index of the first match, 0 if none
FindJob(cfg, jobId) ==
    IF \E i \in DOMAIN cfg : cfg[i].id = jobId
    THEN CHOOSE i \in DOMAIN cfg : cfg[i].id = jobId /\ \A k \in 1..(i - 1) : cfg[k].id # jobId
    ELSE 0

Without(f, k) == [x \in (DOMAIN f) \ {k} |-> f[x]]

With(f, k, v) == [x \in (DOMAIN f) \cup {k} |-> IF x = k THEN v ELSE f[x]]

(* ---- state ------------------------------------------------------------- *)
VARIABLES
    now,        \* Date.now(), in milliseconds
    config,     \* the AppConfig.jobs the application currently holds
    starts,     \* number of startScheduler calls so far (names the JobState objects)
    tasks,      \* Map job id -> timer key
    timers,     \* the Cron objects that have not been stopped, by timer key
    jobStates,  \* Map job id -> JobState
    running,    \* executeJob calls suspended at `await record(...)`, by execution number
    active,     \* activeRecordings: Map instance id -> execution number
    completed,  \* completedRecordings
    nextExec,   \* number of the next execution
    lastOp,     \* the operation performed by the last step and what it returned
    held,       \* what a caller of a read operation got and still holds
    rec,        \* the record(...) call of one execution: the recorder and its encoder
    conn,       \* the connect-mode browser cache of browser.ts and the calls made to it
    launch,     \* the launch-mode browser cache of browser.ts and the calls made to it
    quit        \* the shutdown handler of the main module: where it is

\* the state outside the scheduler module
otherVars == <<held, rec, conn, launch, quit>>

vars == <<now, config, starts, tasks, timers, jobStates, running, active, completed, nextExec, lastOp,
          otherVars>>

\* the scheduler's state but for lastOp
schedulerVars == <<now, config, starts, tasks, timers, jobStates, running, active, completed, nextExec>>

\* op: the operation, arg: its argument, ret: what it returned or, for a
\* step of an execution, what happened
Op(op, arg, ret) == [op |-> op, arg |-> arg, ret |-> ret]

\* browser.ts before the first ensureConnectedBrowser: nothing cached, no
\* attempt pending
NoConnection ==
    [connectedBrowser |-> 0,       \* the cached Browser, 0 for null
     browserConnectPromise |-> 0,  \* the pending attempt, 0 for null
     attempts |-> << >>,           \* the connect attempts made so far
     browsers |-> << >>,           \* the Browser objects puppeteer.connect has produced
     calls |-> << >>]              \* what each ensureConnectedBrowser call returned

\* browser.ts before launchBrowser: nothing launched, no launch pending
NoLaunch ==
    [launchedBrowser |-> 0,        \* the cached Browser, 0 for null
     browserLaunchPromise |-> 0,   \* the pending launch of ensureBrowser, 0 for null
     launches |-> << >>,           \* the launchBrowser calls made so far
     browsers |-> << >>,           \* the browser processes puppeteer.launch has started
     calls |-> << >>,              \* what each ensureBrowser call returned
     closes |-> << >>]             \* the closeBrowser calls made so far

\* the main module while the application runs: shutdown has not been called
NotQuitting == [pc |-> "running", stopped |-> 0, deadline |-> 0, wake |-> 0]

Init ==
    /\ now = 0
    /\ config = ConfigA
    /\ starts = 0
    /\ tasks = << >>
    /\ timers = << >>
    /\ jobStates = << >>
    /\ running = << >>
    /\ active = << >>
    /\ completed = << >>
    /\ nextExec = 1
    /\ lastOp = Op("init", NULL, NULL)
    /\ held = NULL
    /\ rec = NULL
    /\ conn = NoConnection
    /\ launch = NoLaunch
    /\ quit = NotQuitting

(* ---- the clock --------------------------------------------------------- *)
Tick ==
    /\ now < MaxTime
    /\ now' = now + 1
    /\ timers' = [k \in DOMAIN timers |-> [timers[k] EXCEPT !.fired = FALSE]]
    /\ lastOp' = Op("tick", NULL, NULL)
    /\ UNCHANGED <<otherVars, config, starts, tasks, jobStates, running, active, completed, nextExec>>

(* ---- startScheduler / stopScheduler / restartScheduler ------------------ *)
\* task.nextRun(): the next due time of a running Cron, null for none
NextRunOf(k, tms) == IF k \in DOMAIN tms THEN Some("next") ELSE NULL

\* mutant of NewJobState: `job.schedule` without `?? null`, so a job with no
\* schedule shows the absent value instead of null
NewJobStateNoNull(job, gen) ==
    [id |-> job.id, name |-> job.name,
     schedule |-> Some(job.schedule),
     nextRun |-> NULL, lastRun |-> NULL, lastResult |-> NULL, lastError |-> NULL,
     gen |-> gen]

NewJobState(job, gen) ==
    [id |-> job.id, name |-> job.name,
     schedule |-> IF job.schedule = NoSchedule THEN NULL ELSE Some(job.schedule),
     nextRun |-> NULL, lastRun |-> NULL, lastResult |-> NULL, lastError |-> NULL,
     gen |-> gen]

\* the Cron created for a job; fired: it was created or came due at the
\* current instant (a cron pattern is due at most once per instant)
NewTimer(job) == [job |-> job, fired |-> TRUE, blockedOn |-> 0]

\* mutant of StartJob: the `continue` of a job with no schedule is missing,
\* so a timer is created for it as well
StartJobNoSkip(cfg, i, gen, st) ==
    LET job == cfg[i]
        key == <<gen, i>>
        js  == With(st.jobStates, job.id, NewJobState(job, gen))
    IN  IF job.schedule # NoSchedule /\ ~CronParses(job.schedule)
        THEN [st EXCEPT !.jobStates = js]
        ELSE LET tms == With(st.timers, key, NewTimer(job))
             IN  [tasks |-> With(st.tasks, job.id, key),
                  timers |-> tms,
                  jobStates |-> [js EXCEPT ![job.id].nextRun = NextRunOf(key, tms)]]

\* one pass of the loop body of startScheduler, for config.jobs[i]
StartJob(cfg, i, gen, st) ==
    LET job == cfg[i]
        key == <<gen, i>>
        js  == With(st.jobStates, job.id, NewJobState(job, gen))
    IN  IF job.schedule = NoSchedule \/ ~CronParses(job.schedule)
        THEN [st EXCEPT !.jobStates = js]
        ELSE LET tms == With(st.timers, key, NewTimer(job))
             IN  [tasks |-> With(st.tasks, job.id, key),
                  timers |-> tms,
                  jobStates |-> [js EXCEPT ![job.id].nextRun = NextRunOf(key, tms)]]

RECURSIVE StartLoop(_, _, _, _)
StartLoop(cfg, i, gen, st) ==
    IF i > Len(cfg) THEN st
    ELSE StartLoop(cfg, i + 1, gen, StartJob(cfg, i, gen, st))

\* mutant of Started: the exception of new Cron(schedule) is not caught, so
\* the loop ends at the first job whose schedule does not parse
StartedUntilBadCron(cfg, gen, st) ==
    LET bad == {i \in DOMAIN cfg : cfg[i].schedule # NoSchedule /\ ~CronParses(cfg[i].schedule)}
        n   == IF bad = {} THEN Len(cfg) ELSE CHOOSE i \in bad : \A k \in bad : i <= k
    IN  StartLoop(SubSeq(cfg, 1, n), 1, gen, st)

\* the registries after startScheduler(cfg) run on the registries st
Started(cfg, gen, st) == StartLoop(cfg, 1, gen, st)

\* mutant of Stopped: the timers are stopped but jobStates is not cleared
StoppedKeepsStates(st) ==
    LET stoppedKeys == {st.tasks[id] : id \in DOMAIN st.tasks}
    IN  [tasks |-> << >>,
         timers |-> [k \in (DOMAIN st.timers) \ stoppedKeys |-> st.timers[k]],
         jobStates |-> st.jobStates]

\* the registries after stopScheduler() run on the registries st
Stopped(st) ==
    LET stoppedKeys == {st.tasks[id] : id \in DOMAIN st.tasks}
    IN  [tasks |-> << >>,
         timers |-> [k \in (DOMAIN st.timers) \ stoppedKeys |-> st.timers[k]],
         jobStates |-> << >>]

Registries == [tasks |-> tasks, timers |-> timers, jobStates |-> jobStates]

SetRegistries(st) ==
    /\ tasks' = st.tasks
    /\ timers' = st.timers
    /\ jobStates' = st.jobStates

\* startScheduler(config), with the configuration the application holds
StartScheduler ==
    /\ starts < MaxStarts
    /\ starts' = starts + 1
    /\ SetRegistries(Started(config, starts + 1, Registries))
    /\ lastOp' = Op("start", NULL, NULL)
    /\ UNCHANGED <<otherVars, now, config, running, active, completed, nextExec>>

StopScheduler ==
    /\ SetRegistries(Stopped(Registries))
    /\ lastOp' = Op("stop", NULL, NULL)
    /\ UNCHANGED <<otherVars, now, config, starts, running, active, completed, nextExec>>

\* mutant of RestartScheduler: the restart also empties activeRecordings
RestartSchedulerClearsActive(cfg) ==
    /\ starts < MaxStarts
    /\ starts' = starts + 1
    /\ config' = cfg
    /\ SetRegistries(Started(cfg, starts + 1, Stopped(Registries)))
    /\ active' = << >>
    /\ lastOp' = Op("restart", NULL, NULL)
    /\ UNCHANGED <<otherVars, now, running, completed, nextExec>>

\* the application replaces its configuration by cfg (or keeps it) and calls
\* restartScheduler(config)
RestartScheduler(cfg) ==
    /\ starts < MaxStarts
    /\ starts' = starts + 1
    /\ config' = cfg
    /\ SetRegistries(Started(cfg, starts + 1, Stopped(Registries)))
    /\ lastOp' = Op("restart", NULL, NULL)
    /\ UNCHANGED <<otherVars, now, running, active, completed, nextExec>>

(* ---- executeJob --------------------------------------------------------- *)
NewInstance(job, t) ==
    [id |-> InstanceId(job.name, t),
     jobName |-> job.name,
     startedAt |-> toISOString(t),
     durationSeconds |-> job.durationSeconds,
     outputPath |-> InstanceId(job.name, t) \o <<".mp4">>,
     status |-> "recording",
     error |-> NULL]

\* executeJob up to `await record(...)`: returns at once when the job has no
\* JobState, otherwise registers the instance with a new AbortController
ExecuteJobStart(job, by) ==
    IF job.id \notin DOMAIN jobStates
    THEN UNCHANGED <<running, active, jobStates, nextExec>>
    ELSE LET inst == NewInstance(job, now)
         IN  /\ nextExec <= MaxExecs
             /\ running' = With(running, nextExec,
                    [job |-> job, instance |-> inst, aborted |-> FALSE,
                     stateGen |-> jobStates[job.id].gen, by |-> by])
             /\ active' = With(active, inst.id, nextExec)
             /\ jobStates' = [jobStates EXCEPT ![job.id].lastRun = Some(inst.startedAt)]
             /\ nextExec' = nextExec + 1

(* ---- triggerJob --------------------------------------------------------- *)
\* the messages of the two refusals, word by word
NotFoundReason == <<"Job", "not", "found">>

AlreadyRecordingReason(job) == <<"Job">> \o job.name \o <<"is", "already", "recording">>

\* String.prototype.includes on a message: words occurs in msg as a run
Contains(msg, words) ==
    \E k \in 0..(Len(msg) - Len(words)) : \A i \in 1..Len(words) : msg[k + i] = words[i]

\* mutant of AlreadyRecording: the overlap check compares job ids
AlreadyRecordingById(job) ==
    \E id \in DOMAIN active : running[active[id]].job.id = job.id

\* some entry of activeRecordings has instance.jobName === job.name
AlreadyRecording(job) ==
    \E id \in DOMAIN active : running[active[id]].instance.jobName = job.name

\* the execution executeJob(job) starts in this state, 0 when it returns at once
StartedExec(job) == IF job.id \in DOMAIN jobStates THEN nextExec ELSE 0

TriggerJob(jobId) ==
    LET i == FindJob(config, jobId)
    IN  /\ IF i = 0
           THEN /\ lastOp' = Op("trigger", jobId, [triggered |-> FALSE, reason |-> NotFoundReason])
                /\ UNCHANGED <<running, active, jobStates, nextExec>>
           ELSE IF AlreadyRecording(config[i])
           THEN /\ lastOp' = Op("trigger", jobId,
                                [triggered |-> FALSE, reason |-> AlreadyRecordingReason(config[i])])
                /\ UNCHANGED <<running, active, jobStates, nextExec>>
           ELSE /\ ExecuteJobStart(config[i], NULL)
                /\ lastOp' = Op("trigger", jobId, [triggered |-> TRUE, reason |-> NULL])
        /\ UNCHANGED <<otherVars, now, config, starts, tasks, timers, completed>>

(* ---- the cron timers ---------------------------------------------------- *)
\* The callback given to new Cron is `() => { executeJob(config, job).catch(...); }`:
\* a block body with no return statement, so croner receives undefined and
\* not the promise of the execution.
CallbackReturnsPromise == FALSE

\* croner, protect: true -- while the value returned by the previous call of
\* the callback is a pending promise, a due firing is skipped
Blocked(k) == timers[k].blockedOn # 0

\* the timer with key k comes due
TimerFire(k) ==
    LET job == timers[k].job
    IN  /\ ~timers[k].fired
        /\ IF Blocked(k)
           THEN /\ timers' = [timers EXCEPT ![k].fired = TRUE]
                /\ lastOp' = Op("fire", k, "skipped")
                /\ UNCHANGED <<running, active, jobStates, nextExec>>
           ELSE /\ ExecuteJobStart(job, Some(k))
                /\ timers' = [timers EXCEPT
                       ![k].fired = TRUE,
                       ![k].blockedOn = IF CallbackReturnsPromise THEN StartedExec(job) ELSE 0]
                /\ lastOp' = Op("fire", k, "run")
        /\ UNCHANGED <<otherVars, now, config, starts, tasks, completed>>

(* ---- the end of executeJob ---------------------------------------------- *)
\* what `await record(...)` produces: a result with success true, a result
\* with success false and an error message, or an exception
Outcomes == {"success", "error", "throw"}

\* mutant of FinalStatus: the catch block of executeJob does not set the status
FinalStatusCatchKeeps(outcome) ==
    IF outcome = "success" THEN "success" ELSE IF outcome = "throw" THEN "recording" ELSE "error"

FinalStatus(outcome) == IF outcome = "success" THEN "success" ELSE "error"

FinalError(outcome) ==
    CASE outcome = "success" -> NULL
      [] outcome = "error"   -> Some("message")
      [] outcome = "throw"   -> Some("message")

\* mutant of Unshift: the cut drops the entry just inserted
UnshiftDropsNewest(list, inst) ==
    LET l == <<inst>> \o list
    IN  IF Len(l) > MAX_COMPLETED THEN SubSeq(l, 2, MAX_COMPLETED + 1) ELSE l

\* completedRecordings.unshift(instance) and the cut to MAX_COMPLETED
Unshift(list, inst) ==
    LET l == <<inst>> \o list
    IN  IF Len(l) > MAX_COMPLETED THEN SubSeq(l, 1, MAX_COMPLETED) ELSE l

\* number of executions that have ended before this state
EndedCount == (nextExec - 1) - Cardinality(DOMAIN running)

\* mutant of CompleteJob: the clean-up is not in a finally block, so an
\* exception from record() skips it
CompleteJobNoFinally(e, outcome) ==
    LET x     == running[e]
        job   == x.job
        inst  == [x.instance EXCEPT !.status = FinalStatus(outcome), !.error = FinalError(outcome)]
        entry == [instance |-> inst, exec |-> e, seq |-> EndedCount + 1]
        live  == job.id \in DOMAIN jobStates /\ jobStates[job.id].gen = x.stateGen
        next  == IF job.id \in DOMAIN tasks THEN NextRunOf(tasks[job.id], timers) ELSE NULL
        clean == outcome # "throw"
    IN  /\ jobStates' = IF live
                        THEN [jobStates EXCEPT ![job.id].lastResult = Some(inst.status),
                                               ![job.id].lastError = inst.error,
                                               ![job.id].nextRun =
                                                   IF clean THEN next ELSE jobStates[job.id].nextRun]
                        ELSE jobStates
        /\ active' = IF clean THEN Without(active, inst.id) ELSE active
        /\ completed' = IF clean THEN Unshift(completed, entry) ELSE completed
        /\ running' = IF clean THEN Without(running, e)
                      ELSE [running EXCEPT ![e].instance = inst]
        /\ timers' = [k \in DOMAIN timers |->
                        IF timers[k].blockedOn = e THEN [timers[k] EXCEPT !.blockedOn = 0]
                        ELSE timers[k]]
        /\ lastOp' = Op("complete", inst.id, outcome)
        /\ UNCHANGED <<otherVars, now, config, starts, tasks, nextExec>>

\* executeJob from the resumption after `await record(...)` to its end, for
\* an outcome of record() with the given error message.
\* `state` is the JobState object fetched when the execution began: it is
\* still the one in jobStates only if no later startScheduler replaced it.
FinishJob(e, outcome, error) ==
    LET x     == running[e]
        job   == x.job
        inst  == [x.instance EXCEPT !.status = FinalStatus(outcome), !.error = error]
        entry == [instance |-> inst, exec |-> e, seq |-> EndedCount + 1]
        live  == job.id \in DOMAIN jobStates /\ jobStates[job.id].gen = x.stateGen
        next  == IF job.id \in DOMAIN tasks THEN NextRunOf(tasks[job.id], timers) ELSE NULL
    IN  /\ jobStates' = IF live
                        THEN [jobStates EXCEPT ![job.id].lastResult = Some(inst.status),
                                               ![job.id].lastError = inst.error,
                                               ![job.id].nextRun = next]
                        ELSE jobStates
        /\ active' = Without(active, inst.id)
        /\ completed' = Unshift(completed, entry)
        /\ running' = Without(running, e)
        /\ timers' = [k \in DOMAIN timers |->
                        IF timers[k].blockedOn = e THEN [timers[k] EXCEPT !.blockedOn = 0]
                        ELSE timers[k]]
        /\ lastOp' = Op("complete", inst.id, outcome)
        /\ UNCHANGED <<now, config, starts, tasks, nextExec>>

\* the end of an execution whose record() call is not followed step by step
CompleteJob(e, outcome) ==
    /\ FinishJob(e, outcome, FinalError(outcome))
    /\ UNCHANGED otherVars

(* ---- stopRecording / stopAllRecordings ----------------------------------- *)
\* instance ids a caller may pass to stopRecording: the ids of the active
\* recordings, the id of the newest completed one, and one never produced
StopIds ==
    (DOMAIN active)
      \cup (IF completed = << >> THEN {} ELSE {completed[1].instance.id})
      \cup {<<"nonexistent">>}

\* mutant of Abort: one AbortController per job, shared by its executions
AbortSameJob(execs) == [e \in DOMAIN running |->
                    IF \E x \in execs : running[x].job.id = running[e].job.id
                    THEN [running[e] EXCEPT !.aborted = TRUE] ELSE running[e]]

\* entry.abort.abort() on the entries of the executions execs: each entry has
\* the AbortController that its executeJob call created
Abort(execs) == [e \in DOMAIN running |->
                    IF e \in execs THEN [running[e] EXCEPT !.aborted = TRUE] ELSE running[e]]

\* mutant of StopRecording: the entry is dropped from activeRecordings at once
StopRecordingRemoves(instanceId) ==
    /\ IF instanceId \in DOMAIN active
       THEN /\ running' = Abort({active[instanceId]})
            /\ active' = Without(active, instanceId)
            /\ lastOp' = Op("stopOne", instanceId, TRUE)
       ELSE /\ running' = running
            /\ active' = active
            /\ lastOp' = Op("stopOne", instanceId, FALSE)
    /\ UNCHANGED <<otherVars, now, config, starts, tasks, timers, jobStates, completed, nextExec>>

StopRecording(instanceId) ==
    /\ IF instanceId \in DOMAIN active
       THEN /\ running' = Abort({active[instanceId]})
            /\ lastOp' = Op("stopOne", instanceId, TRUE)
       ELSE /\ running' = running
            /\ lastOp' = Op("stopOne", instanceId, FALSE)
    /\ UNCHANGED <<otherVars, now, config, starts, tasks, timers, jobStates, active, completed, nextExec>>

\* mutant of StopAllRecordings: only the recordings not yet aborted are
\* counted
StopAllRecordingsCountsNew ==
    /\ running' = Abort({active[id] : id \in DOMAIN active})
    /\ lastOp' = Op("stopAll", NULL,
                     Cardinality({id \in DOMAIN active : ~running[active[id]].aborted}))
    /\ UNCHANGED <<otherVars, now, config, starts, tasks, timers, jobStates, active, completed, nextExec>>

StopAllRecordings ==
    /\ running' = Abort({active[id] : id \in DOMAIN active})
    /\ lastOp' = Op("stopAll", NULL, Cardinality(DOMAIN active))
    /\ UNCHANGED <<otherVars, now, config, starts, tasks, timers, jobStates, active, completed, nextExec>>

(* ---- the specification --------------------------------------------------- *)
Next ==
    \/ Tick
    \/ StartScheduler
    \/ StopScheduler
    \/ \E cfg \in Configs : RestartScheduler(cfg)
    \/ \E jobId \in TriggerIds : TriggerJob(jobId)
    \/ \E k \in DOMAIN timers : TimerFire(k)
    \/ \E e \in DOMAIN running, outcome \in Outcomes : CompleteJob(e, outcome)
    \/ \E id \in StopIds : StopRecording(id)
    \/ StopAllRecordings

Spec == Init /\ [][Next]_vars

(* ---- a scheduler with a long history -------------------------------------- *)
\* The k-th newest entry of a history left by earlier recordings of Job2,
\* one per second before the model's time 0, each ended with success.
OldEntry(k) ==
    [instance |-> [NewInstance(Job2, 0 - 1000 * k) EXCEPT !.status = "success"],
     exec |-> 0 - k, seq |-> 1 - k]

EmptyRegistries == [tasks |-> << >>, timers |-> << >>, jobStates |-> << >>]

\* The state some time after startScheduler(ConfigA) and MAX_COMPLETED - 1
\* such recordings: one more completion fills the history, the next one
\* overflows it.
InitHistory ==
    LET st == Started(ConfigA, 1, EmptyRegistries)
        last == OldEntry(1).instance
    IN  /\ now = 0
        /\ config = ConfigA
        /\ starts = 1
        /\ tasks = st.tasks
        /\ timers = [k \in DOMAIN st.timers |-> [st.timers[k] EXCEPT !.fired = FALSE]]
        /\ jobStates = [st.jobStates EXCEPT ![Job2.id].lastRun = Some(last.startedAt),
                                            ![Job2.id].lastResult = Some(last.status),
                                            ![Job2.id].lastError = last.error]
        /\ running = << >>
        /\ active = << >>
        /\ completed = [k \in 1..(MAX_COMPLETED - 1) |-> OldEntry(k)]
        /\ nextExec = 1
        /\ lastOp = Op("init", NULL, NULL)
        /\ held = NULL
        /\ rec = NULL
        /\ conn = NoConnection
        /\ launch = NoLaunch
        /\ quit = NotQuitting

\* The scheduler from that state on, up to its next reconfiguration: every
\* step of Next except a further startScheduler or restartScheduler.
NextHistory ==
    \/ Tick
    \/ StopScheduler
    \/ \E jobId \in TriggerIds : TriggerJob(jobId)
    \/ \E k \in DOMAIN timers : TimerFire(k)
    \/ \E e \in DOMAIN running, outcome \in Outcomes : CompleteJob(e, outcome)
    \/ \E id \in StopIds : StopRecording(id)
    \/ StopAllRecordings

SpecHistory == InitHistory /\ [][NextHistory]_vars

(* ---- the read operations --------------------------------------------------- *)
\* getActiveRecordings(): the instances of the entries of activeRecordings
getActiveRecordings == {running[active[id]].instance : id \in DOMAIN active}

\* getCompletedRecordings()
getCompletedRecordings == [i \in DOMAIN completed |-> completed[i].instance]

\* getJobStates(): the values of jobStates
getJobStates == {jobStates[id] : id \in DOMAIN jobStates}

(* ---- C1 ------------------------------------------------------------------- *)
\* C1: in every reachable state the active set holds at most one instance
\* with status recording per job name.
C1_OneRecordingPerJobName ==
    \A a, b \in DOMAIN active :
        LET x == running[active[a]].instance
            y == running[active[b]].instance
        IN  (x.status = "recording" /\ y.status = "recording" /\ x.jobName = y.jobName) => a = b

(* ---- C2 ------------------------------------------------------------------- *)
\* the executions started by a firing of timer k that have not ended
RunningBy(k) == {e \in DOMAIN running : running[e].by = Some(k)}

\* C2: when a timer comes due while the recording started by its previous
\* firing is still running, the firing is skipped: no instance is registered.
C2_OverlappingFiringSkipped ==
    [][\A k \in DOMAIN timers :
          (TimerFire(k) /\ RunningBy(k) # {}) =>
              (active' = active /\ DOMAIN running' = DOMAIN running)]_vars

(* ---- C3 ------------------------------------------------------------------- *)
InConfig(jobId) == \E i \in DOMAIN config : config[i].id = jobId

\* the job triggerJob(jobId) is about: the first one of config with that id
JobOf(jobId) ==
    config[CHOOSE i \in DOMAIN config :
              config[i].id = jobId /\ \A k \in 1..(i - 1) : config[k].id # jobId]

RefusedAs(ret, words) == ret.triggered = FALSE /\ Contains(ret.reason, words)

\* C3: for a configured job, triggerJob answers triggered:false with a reason
\* containing "already recording" exactly when some active recording has the
\* job's name; a refused trigger registers nothing, starts nothing and
\* changes no JobState.
C3_TriggerRefusedOnSameName ==
    [][\A j \in TriggerIds :
          (TriggerJob(j) /\ InConfig(j)) =>
              LET refused == RefusedAs(lastOp'.ret, <<"already", "recording">>)
              IN  /\ refused <=> (\E r \in getActiveRecordings : r.jobName = JobOf(j).name)
                  /\ ~lastOp'.ret.triggered => refused
                  /\ refused => UNCHANGED <<active, running, jobStates, completed, nextExec>>]_vars

\* a trigger of Job2 was refused while the only recording in flight is one of
\* Job1, another job id with the same name
C3_Witness ==
    /\ lastOp.op = "trigger" /\ lastOp.arg = Job2.id
    /\ RefusedAs(lastOp.ret, <<"already", "recording">>)
    /\ config = ConfigA
    /\ \A e \in DOMAIN running : running[e].job = Job1
    /\ getActiveRecordings # {}

(* ---- C4 ------------------------------------------------------------------- *)
\* C4: whenever triggerJob returns triggered:true for a job of the
\* configuration, the active set holds, when the call returns, a new
\* instance of that job with status recording.
C4_TriggeredIsActive ==
    [][\A j \in TriggerIds :
          (TriggerJob(j) /\ InConfig(j) /\ lastOp'.ret.triggered) =>
              \E id \in DOMAIN active' :
                  /\ active'[id] \notin DOMAIN running
                  /\ running'[active'[id]].instance.jobName = JobOf(j).name
                  /\ running'[active'[id]].instance.status = "recording"]_vars

(* ---- C5 ------------------------------------------------------------------- *)
\* C5: triggerJob with a job id that is not in the configuration answers
\* triggered:false with a reason containing "not found" and leaves the job
\* states, the active set, the completed history and the timers unchanged.
C5_UnknownJobNotFound ==
    [][\A j \in TriggerIds :
          (TriggerJob(j) /\ ~InConfig(j)) =>
              /\ RefusedAs(lastOp'.ret, <<"not", "found">>)
              /\ UNCHANGED <<jobStates, active, running, completed, tasks, timers>>]_vars

\* an unknown id was refused while the scheduler has job states, a timer, an
\* active recording and a completed one
C5_Witness ==
    /\ lastOp.op = "trigger" /\ ~InConfig(lastOp.arg)
    /\ RefusedAs(lastOp.ret, <<"not", "found">>)
    /\ jobStates # << >> /\ timers # << >> /\ active # << >> /\ completed # << >>

(* ---- C6 ------------------------------------------------------------------- *)
\* positions of the completed history that hold the instance of execution e
EntriesOf(list, e) == {i \in DOMAIN list : list[i].exec = e}

\* executions whose instance is in the active set
ActiveExecs == {active[id] : id \in DOMAIN active}

\* C6: when the execution of a registered instance ends (with success, with
\* a reported error or with an exception) the instance is no longer in the
\* active set and is the first entry of the completed history, with status
\* success or error; an execution has exactly one completed entry, and no
\* instance is in both collections.
C6_CompletionMovesInstance ==
    [][\A e \in DOMAIN running, outcome \in Outcomes :
          CompleteJob(e, outcome) =>
              /\ e \notin {active'[id] : id \in DOMAIN active'}
              /\ running[e].instance.id \notin DOMAIN active'
              /\ completed' # << >>
              /\ completed'[1].exec = e
              /\ completed'[1].instance.id = running[e].instance.id
              /\ completed'[1].instance.status = (IF outcome = "success" THEN "success" ELSE "error")
              /\ EntriesOf(completed', e) = {1}
              /\ EntriesOf(completed, e) = {}
              /\ \A a \in {active'[id] : id \in DOMAIN active'} : EntriesOf(completed', a) = {}]_vars

\* an execution that ended with an exception is the newest completed entry,
\* with status error, while another recording is still active
C6_Witness ==
    /\ lastOp.op = "complete" /\ lastOp.ret = "throw"
    /\ completed # << >>
    /\ completed[1].instance.status = "error"
    /\ completed[1].instance.id = lastOp.arg
    /\ completed[1].exec \notin ActiveExecs
    /\ active # << >>

(* ---- C7 ------------------------------------------------------------------- *)
\* C7: the completed history never holds more than MAX_COMPLETED entries, is
\* ordered newest completion first, and a completion that finds it full
\* evicts the oldest entry (the last one) and no other.
C7_HistoryBounded ==
    /\ [](/\ Len(completed) <= MAX_COMPLETED
          /\ \A i, j \in DOMAIN completed : i < j => completed[i].seq > completed[j].seq)
    /\ [][\A e \in DOMAIN running, outcome \in Outcomes :
             (CompleteJob(e, outcome) /\ Len(completed) = MAX_COMPLETED) =>
                 /\ Len(completed') = MAX_COMPLETED
                 /\ completed'[1].exec = e
                 /\ \A i \in 1..(MAX_COMPLETED - 1) : completed'[i + 1] = completed[i]]_vars

\* the history is full, its newest entry is the second completion since the
\* initial state and the oldest initial entry has been evicted
C7_Witness ==
    /\ Len(completed) = MAX_COMPLETED
    /\ completed[1].seq = 2
    /\ completed[MAX_COMPLETED] = OldEntry(MAX_COMPLETED - 2)

(* ---- C8 ------------------------------------------------------------------- *)
Instances(r) == [e \in DOMAIN r |-> r[e].instance]

\* C8: stopRecording(id) returns true and arms the abort signal of exactly
\* the instance with that id when the id is active, and otherwise returns
\* false and changes nothing; either way the active set, the instances and
\* their status, the completed history and the job states are as before.
C8_StopOneArmsOne ==
    [][\A id \in StopIds :
          StopRecording(id) =>
              /\ id \in DOMAIN active =>
                    /\ lastOp'.ret = TRUE
                    /\ running'[active[id]].aborted
                    /\ \A e \in (DOMAIN running) \ {active[id]} :
                          running'[e].aborted = running[e].aborted
              /\ id \notin DOMAIN active => (lastOp'.ret = FALSE /\ running' = running)
              /\ Instances(running') = Instances(running)
              /\ UNCHANGED <<active, completed, jobStates, tasks, timers>>]_vars

\* one of two active recordings was stopped: it is still active, with status
\* recording, and the other one is not aborted
C8_Witness ==
    /\ lastOp.op = "stopOne" /\ lastOp.ret = TRUE
    /\ lastOp.arg \in DOMAIN active
    /\ running[active[lastOp.arg]].aborted
    /\ running[active[lastOp.arg]].instance.status = "recording"
    /\ \E id \in DOMAIN active : ~running[active[id]].aborted

(* ---- C9 ------------------------------------------------------------------- *)
\* C9: stopAllRecordings() returns the number of entries of the active set
\* at the time of the call (0 for an empty one) and arms the abort signal of
\* every one of them.
C9_StopAllCountsAndArms ==
    [][StopAllRecordings =>
          /\ lastOp'.ret = Cardinality(getActiveRecordings)
          /\ \A id \in DOMAIN active : running'[active[id]].aborted
          /\ active = << >> => lastOp'.ret = 0
          /\ UNCHANGED active]_vars

\* stopAllRecordings() returned 2 with two recordings active, one of which
\* had been stopped before
C9_Witness ==
    /\ lastOp.op = "stopAll" /\ lastOp.ret = 2
    /\ Cardinality(DOMAIN active) = 2
    /\ \A id \in DOMAIN active : running[active[id]].aborted

(* ---- C10 ------------------------------------------------------------------ *)
\* C10: after stopScheduler() getJobStates() is empty, no timer is registered
\* and every timer that was registered is stopped; stopScheduler() on a
\* stopped or never started scheduler changes nothing; the active set, the
\* executions in flight and the completed history are left as they are.
C10_StopClearsRegistries ==
    [][StopScheduler =>
          /\ getJobStates' = {}
          /\ tasks' = << >>
          /\ \A id \in DOMAIN tasks : tasks[id] \notin DOMAIN timers'
          /\ (tasks = << >> /\ jobStates = << >>) => UNCHANGED <<timers, now, config, starts, nextExec>>
          /\ UNCHANGED <<active, running, completed>>]_vars

\* stopScheduler() ran on a scheduler that had job states and a timer, with
\* a recording active and one completed
C10_Witness ==
    /\ lastOp.op = "stop"
    /\ jobStates = << >> /\ tasks = << >>
    /\ starts > 0
    /\ active # << >> /\ completed # << >>

(* ---- C11 ------------------------------------------------------------------ *)
\* the jobs of the configuration that have no schedule
ManualOnly == {i \in DOMAIN config : config[i].schedule = NoSchedule}

\* C11: in every reachable state a job with no schedule has no timer, neither
\* in the tasks map nor among the live Cron objects, and its JobState, when it
\* has one, shows nextRun null and schedule null.
C11_ManualOnlyHasNoTimer ==
    \A i \in ManualOnly :
        /\ config[i].id \notin DOMAIN tasks
        /\ \A k \in DOMAIN timers : timers[k].job # config[i]
        /\ config[i].id \in DOMAIN jobStates =>
               /\ jobStates[config[i].id].nextRun = NULL
               /\ jobStates[config[i].id].schedule = NULL

\* a triggered recording of the manual-only job has completed and its
\* JobState shows the outcome, while the scheduler holds a timer of another job
C11_Witness ==
    /\ lastOp.op = "complete"
    /\ config = ConfigA
    /\ Job2.id \in DOMAIN jobStates
    /\ jobStates[Job2.id].lastResult # NULL
    /\ jobStates[Job2.id].nextRun = NULL
    /\ tasks # << >>

(* ---- C12 ------------------------------------------------------------------ *)
\* the jobs of configuration cfg whose schedule is present and does not parse
BadCronJobs(cfg) ==
    {i \in DOMAIN cfg : cfg[i].schedule # NoSchedule /\ ~CronParses(cfg[i].schedule)}

\* C12: startScheduler gives a job whose schedule does not parse a JobState
\* and no timer and goes on to the jobs after it; triggerJob for such a job,
\* while it has its JobState and no recording of its name is active, answers
\* triggered:true and registers a recording of it.
C12_BadCronStillTriggerable ==
    /\ [][(StartScheduler \/ \E cfg \in Configs : RestartScheduler(cfg)) =>
             \A i \in BadCronJobs(config') :
                 /\ config'[i].id \in DOMAIN jobStates'
                 /\ jobStates'[config'[i].id].gen = starts'
                 /\ config'[i].id \notin DOMAIN tasks'
                 /\ \A k \in DOMAIN timers' : timers'[k].job # config'[i]
                 /\ \A n \in (i + 1)..Len(config') :
                        /\ config'[n].id \in DOMAIN jobStates'
                        /\ jobStates'[config'[n].id].gen = starts'
                        /\ CronParses(config'[n].schedule) => config'[n].id \in DOMAIN tasks']_vars
    /\ [][\A j \in TriggerIds :
             (/\ TriggerJob(j)
              /\ InConfig(j)
              /\ FindJob(config, j) \in BadCronJobs(config)
              /\ j \in DOMAIN jobStates
              /\ ~\E r \in getActiveRecordings : r.jobName = JobOf(j).name) =>
                 /\ lastOp'.ret.triggered
                 /\ nextExec \in DOMAIN running'
                 /\ running'[nextExec].job = JobOf(j)
                 /\ running'[nextExec].instance.status = "recording"
                 /\ nextExec \in {active'[id] : id \in DOMAIN active'}]_vars

\* the job with the malformed schedule was triggered and is recording; it has
\* a JobState and no timer, and the job after it has a JobState too
C12_Witness ==
    /\ lastOp.op = "trigger" /\ lastOp.arg = Job3.id /\ lastOp.ret.triggered
    /\ config = ConfigA
    /\ \E e \in DOMAIN running : running[e].job = Job3
    /\ Job3.id \in DOMAIN jobStates /\ Job3.id \notin DOMAIN tasks
    /\ Job2.id \in DOMAIN jobStates

(* ---- C13 ------------------------------------------------------------------ *)
\* the field job.schedule as a JobState shows it
ScheduleOrNull(job) == IF job.schedule = NoSchedule THEN NULL ELSE Some(job.schedule)

CaptureFps(job) == IF job.captureFps = 0 THEN 2 ELSE job.captureFps

\* 1000 / captureFps, in milliseconds (a whole number for the rates of the
\* model's jobs)
CaptureInterval(job) == 1000 \div CaptureFps(job)

\* the stderr buffer keeps the last 4096 characters, the error message of a
\* failed encoder the last 500 of them
STDERR_KEEP == 4096

STDERR_TAIL == 500

\* the ceiling of the wait for 'drain', in milliseconds
DRAIN_TIMEOUT == 10000

Max(a, b) == IF a >= b THEN a ELSE b

\* The encoder's stderr output is a stream of characters numbered from 1; a
\* string cut from it is the range lo..hi of positions it holds ("" when
\* hi < lo).
\* stderr += d.toString(); if (stderr.length > 4096) stderr = stderr.slice(-4096)
AppendStderr(buf, n) ==
    LET hi == buf.hi + n
    IN  [lo |-> IF hi - buf.lo + 1 > STDERR_KEEP THEN hi - STDERR_KEEP + 1 ELSE buf.lo, hi |-> hi]

\* mutant of Slice: the first n characters are kept, slice(0, n)
SliceHead(buf, n) == [lo |-> buf.lo, hi |-> IF buf.lo + n - 1 < buf.hi THEN buf.lo + n - 1 ELSE buf.hi]

\* buf.slice(-n)
Slice(buf, n) == [lo |-> Max(buf.lo, buf.hi - n + 1), hi |-> buf.hi]

\* the sizes of the chunks the encoder writes to stderr
ChunkSizes == {300, 4000}

\* the number of stderr chunks of one encoder run
MaxChunks == 2

\* the time a screenshot, or a wait for 'drain' that ends with the drain,
\* takes, in milliseconds
Lats == {0, 100, 600}

\* an error message: its words, and the piece of stderr appended to it
Msg(text, detail) == [text |-> text, detail |-> detail]

ZeroFramesMessage ==
    Msg(<<"Recording", "captured", "0", "frames", "screenshot", "failed", "immediately">>, NULL)

SpawnFailedMessage == Msg(<<"ffmpeg", "failed", "to", "start">>, NULL)

ExitMessage(code, buf) ==
    Msg(<<"ffmpeg", "exited", "with", "code", ToString(code)>>, Some(Slice(buf, STDERR_TAIL)))

\* how the encoder process ended: 'close' with an exit code, or 'error' (it
\* could not be started)
Closed(code) == [event |-> "close", code |-> code]

SpawnFailed == [event |-> "error", code |-> 0 - 1]

Exits == {Closed(0), Closed(1), SpawnFailed}

\* the record(...) call of execution e, at its first await; mode is "launch"
\* when config.executablePath is set and "connect" otherwise
Recording(e, job, mode) ==
    [pc |-> "ensure", exec |-> e, job |-> job, mode |-> mode,
     page |-> NULL, opened |-> FALSE,  \* record's `page` and `openedPage`
     newTabs |-> 0,            \* tabs opened by this call that are still open
     startTime |-> 0, totalFrames |-> 0,
     exit |-> NULL,            \* ffmpegDone is exit # NULL
     destroyed |-> FALSE,      \* proc.stdin.destroyed
     ended |-> FALSE,          \* proc.stdin.end() was called
     stderr |-> [lo |-> 1, hi |-> 0], chunks |-> 0,
     captureAt |-> 0,          \* when the screenshot in flight was asked for
     wake |-> 0,               \* when the sleep in progress ends
     attempts |-> 0,           \* screenshots asked for so far
     slowest |-> 0,            \* the longest capture plus write so far
     result |-> NULL]

\* mutant of AfterLoop: proc.stdin.end() is not called
AfterLoopKeepsInput(r) == [r EXCEPT !.pc = "procDone"]

\* the code after the loop, up to the await of procDone
AfterLoop(r) == [r EXCEPT !.ended = ~r.destroyed, !.pc = "procDone"]

\* mutant of LoopTop: the deadline test is elapsed > durationSeconds
LoopTopLate(r, t, aborted) ==
    IF r.exit # NULL \/ aborted THEN AfterLoop(r)
    ELSE IF t - r.startTime > 1000 * r.job.durationSeconds THEN AfterLoop(r)
    ELSE [r EXCEPT !.pc = "screenshot", !.captureAt = t, !.attempts = @ + 1]

\* mutant of LoopTop: the loop test is `!ffmpegDone` alone
LoopTopIgnoresAbort(r, t, aborted) ==
    IF r.exit # NULL THEN AfterLoop(r)
    ELSE IF t - r.startTime >= 1000 * r.job.durationSeconds THEN AfterLoop(r)
    ELSE [r EXCEPT !.pc = "screenshot", !.captureAt = t, !.attempts = @ + 1]

\* the loop test and the deadline test at time t, up to the await of the
\* screenshot
LoopTop(r, t, aborted) ==
    IF r.exit # NULL \/ aborted THEN AfterLoop(r)
    ELSE IF t - r.startTime >= 1000 * r.job.durationSeconds THEN AfterLoop(r)
    ELSE [r EXCEPT !.pc = "screenshot", !.captureAt = t, !.attempts = @ + 1]

\* mutant of Pace: a fixed sleep of one interval after each frame
PaceFixedSleep(r, t, aborted) ==
    [r EXCEPT !.pc = "sleep", !.wake = t + CaptureInterval(r.job)]

\* the end of a loop pass at time t: sleep until startTime + totalFrames *
\* captureInterval, or go on at once when that instant has passed
Pace(r, t, aborted) ==
    LET nextFrameAt == r.startTime + r.totalFrames * CaptureInterval(r.job)
        sleepMs     == Max(0, nextFrameAt - t)
    IN  IF sleepMs > 0 THEN [r EXCEPT !.pc = "sleep", !.wake = t + sleepMs]
        ELSE LoopTop(r, t, aborted)

\* signal.aborted of the execution the recorder works for
Aborted == running[rec.exec].aborted

\* what a recorder step leaves alone
RecorderFrame == UNCHANGED <<held, conn, launch, quit, config, starts, tasks, timers, jobStates, running, active, completed, nextExec>>

\* page.screenshot settles after lat ms, with a frame or with an error; the
\* frame is written unless stdin is destroyed, and writeOk is what write returns
ScreenshotSettles(lat, shot, writeOk) ==
    LET t == now + lat
        r == [rec EXCEPT !.slowest = Max(@, t - rec.captureAt)]
    IN  /\ rec # NULL /\ rec.pc = "screenshot"
        /\ now' = t
        /\ rec' = IF shot = "throw" \/ r.destroyed THEN AfterLoop(r)
                  ELSE LET w == [r EXCEPT !.totalFrames = @ + 1]
                       IN  IF ~writeOk THEN [w EXCEPT !.pc = "drain"]
                           ELSE Pace(w, t, Aborted)
        /\ lastOp' = Op("screenshot", shot, writeOk)
        /\ RecorderFrame

\* mutant of DrainSettles: the loop goes on after the drain timeout as well
DrainSettlesTimeoutGoesOn(drained, lat) ==
    LET t == IF drained THEN now + lat ELSE now + DRAIN_TIMEOUT
        r == [rec EXCEPT !.slowest = Max(@, t - rec.captureAt)]
    IN  /\ rec # NULL /\ rec.pc = "drain"
        /\ now' = t
        /\ rec' = Pace(r, t, Aborted)
        /\ lastOp' = Op("drain", NULL, drained)
        /\ RecorderFrame

\* the wait for 'drain' ends: with the drain after lat ms, or with the timeout
DrainSettles(drained, lat) ==
    LET t == IF drained THEN now + lat ELSE now + DRAIN_TIMEOUT
        r == [rec EXCEPT !.slowest = Max(@, t - rec.captureAt)]
    IN  /\ rec # NULL /\ rec.pc = "drain"
        /\ now' = t
        /\ rec' = IF drained THEN Pace(r, t, Aborted) ELSE AfterLoop(r)
        /\ lastOp' = Op("drain", NULL, drained)
        /\ RecorderFrame

\* the sleep of a loop pass ends
SleepEnds ==
    /\ rec # NULL /\ rec.pc = "sleep"
    /\ now' = rec.wake
    /\ rec' = LoopTop(rec, rec.wake, Aborted)
    /\ lastOp' = Op("sleep", NULL, NULL)
    /\ RecorderFrame

\* the encoder writes a chunk of n characters to stderr
StderrData(n) ==
    /\ rec # NULL /\ rec.pc \in {"screenshot", "drain", "sleep", "procDone"}
    /\ rec.exit = NULL
    /\ rec.chunks < MaxChunks
    /\ rec' = [rec EXCEPT !.stderr = AppendStderr(@, n), !.chunks = @ + 1]
    /\ lastOp' = Op("stderr", n, NULL)
    /\ UNCHANGED now
    /\ RecorderFrame

\* the encoder process ends: 'close' with an exit code, or 'error' when it
\* could not be started
ProcEnds(how) ==
    /\ rec # NULL /\ rec.pc \in {"screenshot", "drain", "sleep", "procDone"}
    /\ rec.exit = NULL
    /\ how = SpawnFailed => (rec.totalFrames = 0 /\ rec.chunks = 0 /\ ~rec.ended)
    /\ rec' = [rec EXCEPT !.exit = how]
    /\ lastOp' = Op("procEnds", how, NULL)
    /\ UNCHANGED now
    /\ RecorderFrame

\* the pipe to the encoder breaks: proc.stdin is destroyed
StdinBreaks ==
    /\ rec # NULL /\ rec.pc \in {"screenshot", "drain", "sleep"}
    /\ ~rec.destroyed
    /\ rec' = [rec EXCEPT !.destroyed = TRUE]
    /\ lastOp' = Op("stdinBreaks", NULL, NULL)
    /\ UNCHANGED now
    /\ RecorderFrame

\* mutant of Thrown: the test for zero frames is missing
ThrownIgnoresFrames(r) ==
    IF r.exit = Closed(0) THEN NULL
    ELSE IF r.exit = SpawnFailed THEN Some(SpawnFailedMessage)
    ELSE Some(ExitMessage(r.exit.code, r.stderr))

\* mutant of Thrown: procDone is awaited before the test for zero frames, so
\* the encoder's failure wins over it
ThrownExitFirst(r) ==
    IF r.exit = SpawnFailed THEN Some(SpawnFailedMessage)
    ELSE IF r.exit # Closed(0) THEN Some(ExitMessage(r.exit.code, r.stderr))
    ELSE IF r.totalFrames = 0 THEN Some(ZeroFramesMessage)
    ELSE NULL

\* what recordPage throws once procDone has settled, NULL when it returns
Thrown(r) ==
    IF r.totalFrames = 0 THEN Some(ZeroFramesMessage)
    ELSE IF r.exit = Closed(0) THEN NULL
    ELSE IF r.exit = SpawnFailed THEN Some(SpawnFailedMessage)
    ELSE Some(ExitMessage(r.exit.code, r.stderr))

(* ---- record: one recording attempt ------------------------------------------ *)
\* the URLs of the tabs the browser may have open, in the order of browser.pages()
UrlOther == <<"http:", "other">>

UrlB == <<"http:", "site", "b">>

UrlB2 == <<"http:", "site", "b", "2">>

UrlC == <<"http:", "site", "c">>

TabLists == {<< >>, <<UrlOther, UrlB, UrlB2>>, <<UrlC>>}

ConnectFailedMessage == Msg(<<"Failed", "to", "connect", "to", "browser">>, NULL)

LaunchFailedMessage == Msg(<<"Failed", "to", "launch", "browser">>, NULL)

PageNotFoundMessage == Msg(<<"No", "tab", "matches", "urlPattern", "and", "no", "url", "is", "configured">>, NULL)

\* the message of an error raised by the browser (pages, newPage, goto,
\* setViewport)
BrowserErrorMessage(call) == Msg(<<call, "failed">>, NULL)

\* the finally block of record(): the page is closed when this call opened it
Finally(r) ==
    IF r.page # NULL /\ r.opened THEN [r EXCEPT !.pc = "closing"] ELSE [r EXCEPT !.pc = "returned"]

\* mutant of Fail: the error is thrown again after it has been logged
FailRethrows(r, msg) ==
    Finally([r EXCEPT !.result = [success |-> FALSE, error |-> Some(msg), thrown |-> TRUE]])

\* the catch block of record(), then the finally block
Fail(r, msg) ==
    Finally([r EXCEPT !.result = [success |-> FALSE, error |-> Some(msg), thrown |-> FALSE]])

\* return { success: true, outputPath }, then the finally block
Succeed(r) ==
    Finally([r EXCEPT !.result = [success |-> TRUE, error |-> NULL, thrown |-> FALSE]])

\* recordPage from its entry at time t to its first await
EnterRecordPage(r, t, aborted) == LoopTop([r EXCEPT !.pc = "spawned", !.startTime = t], t, aborted)

\* record() once findPage has returned: setViewport when the job gives both
\* dimensions, recordPage otherwise
AfterFound(r, t, aborted) ==
    IF r.job.viewportWidth # 0 /\ r.job.viewportHeight # 0
    THEN [r EXCEPT !.pc = "viewport"]
    ELSE EnterRecordPage(r, t, aborted)

\* mutant of FirstMatch: the scan keeps the last tab that matches
LastMatch(tabs, pattern) ==
    IF \E i \in DOMAIN tabs : Contains(tabs[i], pattern)
    THEN CHOOSE i \in DOMAIN tabs :
            Contains(tabs[i], pattern) /\ \A k \in (i + 1)..Len(tabs) : ~Contains(tabs[k], pattern)
    ELSE 0

\* the index of the first tab whose URL includes pattern, 0 if there is none
FirstMatch(tabs, pattern) ==
    IF \E i \in DOMAIN tabs : Contains(tabs[i], pattern)
    THEN CHOOSE i \in DOMAIN tabs :
            Contains(tabs[i], pattern) /\ \A k \in 1..(i - 1) : ~Contains(tabs[k], pattern)
    ELSE 0

\* ensureBrowser / ensureConnectedBrowser settles
EnsureSettles(ok) ==
    /\ rec # NULL /\ rec.pc = "ensure"
    /\ rec' = IF ok THEN [rec EXCEPT !.pc = "pages"]
              ELSE Fail(rec, IF rec.mode = "launch" THEN LaunchFailedMessage ELSE ConnectFailedMessage)
    /\ lastOp' = Op("ensure", NULL, ok)
    /\ UNCHANGED now
    /\ RecorderFrame

\* findPage: browser.pages() settles with the open tabs, or fails
PagesSettle(ok, tabs) ==
    LET job == rec.job
        m   == IF job.urlPattern = NoString THEN 0 ELSE FirstMatch(tabs, job.urlPattern)
    IN  /\ rec # NULL /\ rec.pc = "pages"
        /\ rec' = IF ~ok THEN Fail(rec, BrowserErrorMessage("pages"))
                  ELSE IF m # 0
                  THEN AfterFound([rec EXCEPT !.page = Some([tab |-> m, url |-> tabs[m]]),
                                              !.opened = FALSE], now, Aborted)
                  ELSE IF job.url # NoString THEN [rec EXCEPT !.pc = "newPage"]
                  ELSE Fail(rec, PageNotFoundMessage)
        /\ lastOp' = Op("pages", tabs, ok)
        /\ UNCHANGED now
        /\ RecorderFrame

\* findPage: browser.newPage() settles
NewPageSettles(ok) ==
    /\ rec # NULL /\ rec.pc = "newPage"
    /\ rec' = IF ok THEN [rec EXCEPT !.pc = "goto", !.newTabs = @ + 1]
              ELSE Fail(rec, BrowserErrorMessage("newPage"))
    /\ lastOp' = Op("newPage", NULL, ok)
    /\ UNCHANGED now
    /\ RecorderFrame

\* findPage: page.goto(job.url) settles; on failure findPage throws and
\* record's `page` stays null
GotoSettles(ok) ==
    /\ rec # NULL /\ rec.pc = "goto"
    /\ rec' = IF ok
              THEN AfterFound([rec EXCEPT !.page = Some([tab |-> 0, url |-> rec.job.url]),
                                          !.opened = TRUE], now, Aborted)
              ELSE Fail(rec, BrowserErrorMessage("goto"))
    /\ lastOp' = Op("goto", NULL, ok)
    /\ UNCHANGED now
    /\ RecorderFrame

\* page.setViewport settles
ViewportSettles(ok) ==
    /\ rec # NULL /\ rec.pc = "viewport"
    /\ rec' = IF ok THEN EnterRecordPage(rec, now, Aborted)
              ELSE Fail(rec, BrowserErrorMessage("setViewport"))
    /\ lastOp' = Op("setViewport", NULL, ok)
    /\ UNCHANGED now
    /\ RecorderFrame

\* procDone settles once the encoder has ended: recordPage returns or throws
ProcDoneSettles ==
    /\ rec # NULL /\ rec.pc = "procDone"
    /\ rec.exit # NULL
    /\ rec' = IF Thrown(rec) = NULL THEN Succeed(rec) ELSE Fail(rec, Thrown(rec)[1])
    /\ lastOp' = Op("recordPage", NULL, Thrown(rec))
    /\ UNCHANGED now
    /\ RecorderFrame

\* page.close() of the finally block settles; a failure is swallowed
CloseSettles(ok) ==
    /\ rec # NULL /\ rec.pc = "closing"
    /\ rec' = [rec EXCEPT !.pc = "returned", !.newTabs = IF ok THEN @ - 1 ELSE @]
    /\ lastOp' = Op("close", NULL, ok)
    /\ UNCHANGED now
    /\ RecorderFrame

\* executeJob resumes with what record() produced
FinishRecorded ==
    /\ rec # NULL /\ rec.pc = "returned"
    /\ FinishJob(rec.exec,
                 IF rec.result.thrown THEN "throw"
                 ELSE IF rec.result.success THEN "success" ELSE "error",
                 rec.result.error)
    /\ rec' = NULL
    /\ UNCHANGED <<held, conn, launch, quit>>

\* the recordings the model follows: a job and the mode of the browser
Attempts == {<<Job2, "connect">>, <<Job3, "launch">>}

\* The scheduler some time after startScheduler(cfg), when job has just
\* been triggered: executeJob has registered the instance and called
\* record(), which has come to the state r.
TriggeredIn(cfg, job, r) ==
    LET st   == Started(cfg, 1, EmptyRegistries)
        inst == NewInstance(job, 0)
    IN  /\ now = 0
        /\ config = cfg
        /\ starts = 1
        /\ tasks = st.tasks
        /\ timers = [k \in DOMAIN st.timers |-> [st.timers[k] EXCEPT !.fired = FALSE]]
        /\ jobStates = [st.jobStates EXCEPT ![job.id].lastRun = Some(inst.startedAt)]
        /\ running = With(<< >>, 1, [job |-> job, instance |-> inst, aborted |-> FALSE,
                                     stateGen |-> 1, by |-> NULL])
        /\ active = With(<< >>, inst.id, 1)
        /\ completed = << >>
        /\ nextExec = 2
        /\ lastOp = Op("trigger", job.id, [triggered |-> TRUE, reason |-> NULL])
        /\ held = NULL
        /\ rec = r
        /\ conn = NoConnection
        /\ launch = NoLaunch
        /\ quit = NotQuitting

Triggered(job, r) == TriggeredIn(ConfigA, job, r)

InitRecord == \E a \in Attempts : Triggered(a[1], Recording(1, a[1], a[2]))

\* the steps of that recording, of its encoder and browser, and of the
\* scheduler around it
NextRecord ==
    \/ \E ok \in BOOLEAN : EnsureSettles(ok)
    \/ \E ok \in BOOLEAN, tabs \in TabLists : PagesSettle(ok, tabs)
    \/ \E ok \in BOOLEAN : NewPageSettles(ok)
    \/ \E ok \in BOOLEAN : GotoSettles(ok)
    \/ \E ok \in BOOLEAN : ViewportSettles(ok)
    \/ \E lat \in Lats, shot \in {"jpeg", "throw"}, writeOk \in BOOLEAN : ScreenshotSettles(lat, shot, writeOk)
    \/ \E drained \in BOOLEAN, lat \in Lats : DrainSettles(drained, lat)
    \/ SleepEnds
    \/ \E n \in ChunkSizes : StderrData(n)
    \/ \E how \in Exits : ProcEnds(how)
    \/ StdinBreaks
    \/ ProcDoneSettles
    \/ \E ok \in BOOLEAN : CloseSettles(ok)
    \/ FinishRecorded
    \/ \E id \in DOMAIN active : StopRecording(id)
    \/ \E jobId \in TriggerIds : rec = NULL /\ TriggerJob(jobId)
    \/ \E e \in DOMAIN running, outcome \in Outcomes : rec = NULL /\ CompleteJob(e, outcome)

SpecRecord == InitRecord /\ [][NextRecord]_vars

(* ---- the capture loop on its own --------------------------------------------- *)
\* A recording of Job1 or Job2 that has found its page and entered recordPage
\* at time 0, with an encoder that keeps running and a recording that is not
\* cancelled: the passes of the capture loop up to the deadline.
InitPacing ==
    \E job \in {Job1, Job2} :
        Triggered(job, EnterRecordPage([Recording(1, job, "connect") EXCEPT
                                           !.page = Some([tab |-> 0, url |-> job.url]),
                                           !.opened = TRUE], 0, FALSE))

NextPacing ==
    \/ \E lat \in Lats, writeOk \in BOOLEAN : ScreenshotSettles(lat, "jpeg", writeOk)
    \/ \E lat \in Lats : DrainSettles(TRUE, lat)
    \/ SleepEnds

SpecPacing == InitPacing /\ [][NextPacing]_vars

(* ---- the capture loop and the encoder's pipe ---------------------------------- *)
\* A recording of Job5 that has opened its page and entered recordPage at
\* time 0: the capture loop with a pipe that may fill, an encoder that may
\* end, and a recording that may be stopped.
InitDrain ==
    TriggeredIn(ConfigC, Job5,
                EnterRecordPage([Recording(1, Job5, "connect") EXCEPT
                                    !.page = Some([tab |-> 0, url |-> Job5.url]),
                                    !.opened = TRUE, !.newTabs = 1], 0, FALSE))

NextDrain ==
    \/ \E shot \in {"jpeg", "throw"}, writeOk \in BOOLEAN : ScreenshotSettles(100, shot, writeOk)
    \/ \E drained \in BOOLEAN : DrainSettles(drained, 600)
    \/ SleepEnds
    \/ \E how \in Exits : ProcEnds(how)
    \/ StdinBreaks
    \/ ProcDoneSettles
    \/ \E ok \in BOOLEAN : CloseSettles(ok)
    \/ FinishRecorded
    \/ \E id \in DOMAIN active : StopRecording(id)

SpecDrain == InitDrain /\ [][NextDrain]_vars

\* A recording of Job3 that has entered recordPage at time 0, while other
\* requests are served: jobs are triggered, and their executions end, while
\* the capture loop of the recording is under way.
InitOthers ==
    Triggered(Job3, EnterRecordPage([Recording(1, Job3, "launch") EXCEPT
                                        !.page = Some([tab |-> 0, url |-> Job3.url]),
                                        !.opened = TRUE, !.newTabs = 1], 0, FALSE))

NextOthers ==
    \/ NextDrain
    \/ \E jobId \in TriggerIds : rec # NULL /\ TriggerJob(jobId)
    \/ \E e \in DOMAIN running, outcome \in Outcomes :
           rec # NULL /\ e # rec.exec /\ CompleteJob(e, outcome)

SpecOthers == InitOthers /\ [][NextOthers]_vars

(* ---- a recording that may be cancelled, to its end ------------------------------ *)
\* the steps of record() that come when a browser call returns, a timer
\* fires or procDone settles, and the resumption of executeJob
RecordSteps ==
    \/ \E ok \in BOOLEAN : EnsureSettles(ok)
    \/ \E ok \in BOOLEAN, tabs \in TabLists : PagesSettle(ok, tabs)
    \/ \E ok \in BOOLEAN : NewPageSettles(ok)
    \/ \E ok \in BOOLEAN : GotoSettles(ok)
    \/ \E ok \in BOOLEAN : ViewportSettles(ok)
    \/ \E shot \in {"jpeg", "throw"}, writeOk \in BOOLEAN : ScreenshotSettles(100, shot, writeOk)
    \/ \E drained \in BOOLEAN : DrainSettles(drained, 600)
    \/ SleepEnds
    \/ ProcDoneSettles
    \/ \E ok \in BOOLEAN : CloseSettles(ok)
    \/ FinishRecorded

\* the encoder ends after its input was ended or destroyed
EncoderEndsOnEof ==
    /\ rec # NULL /\ (rec.ended \/ rec.destroyed)
    /\ \E how \in Exits : ProcEnds(how)

NextCancel ==
    \/ RecordSteps
    \/ \E how \in Exits : ProcEnds(how)
    \/ StdinBreaks
    \/ \E id \in DOMAIN active : StopRecording(id)
    \/ StopAllRecordings

\* Every browser call of record() returns, every timer fires, and the
\* encoder ends once its input is closed.
SpecCancel ==
    /\ InitRecord
    /\ [][NextCancel]_vars
    /\ WF_vars(RecordSteps)
    /\ WF_vars(EncoderEndsOnEof)

(* ---- findPage alone -------------------------------------------------------- *)
\* The recordings of the three jobs of ConfigA from the call of findPage to
\* the entry of recordPage, or to the end of record() when no page is found.
InitFindPage ==
    \E job \in {Job1, Job2, Job3} :
        Triggered(job, [Recording(1, job, "connect") EXCEPT !.pc = "pages"])

NextFindPage ==
    \/ \E ok \in BOOLEAN, tabs \in TabLists : PagesSettle(ok, tabs)
    \/ \E ok \in BOOLEAN : NewPageSettles(ok)
    \/ \E ok \in BOOLEAN : GotoSettles(ok)
    \/ \E ok \in BOOLEAN : ViewportSettles(ok)
    \/ \E ok \in BOOLEAN : CloseSettles(ok)
    \/ FinishRecorded
    \/ \E id \in DOMAIN active : StopRecording(id)
    \/ \E jobId \in TriggerIds : rec = NULL /\ TriggerJob(jobId)

SpecFindPage == InitFindPage /\ [][NextFindPage]_vars

(* ---- browser.ts, connect mode: ensureConnectedBrowser ---------------------- *)
\* the ceiling of one connect attempt, in ms
CONNECT_TIMEOUT == 30000
\* calls of ensureConnectedBrowser and connect attempts a behaviour may make
MaxCalls == 3
MaxAttempts == 2
\* how long the caller of the module lets pass between two events, in ms
Waits == {10000, 30000}

Min(a, b) == IF a < b THEN a ELSE b

\* `Failed to connect to browser at ${browserURL}: ${err.message}`
ConnectErrorMessage(why) == Msg("Failed to connect to browser at", why)

\* One attempt: the promise stored in browserConnectPromise.
\*   connect:  puppeteer.connect(...) itself: "pending", "resolved", "rejected"
\*   race:     Promise.race of it and the timer: "pending", "connected",
\*             "failed" (connect rejected first), "timeout" (timer first)
\*   browser:  the Browser that connect produced, 0 for none (yet)
\*   cached:   the .then callback has run
\*   outcome:  what the promise settled with, NULL while it is pending
Attempt(t) ==
    [connect |-> "pending", race |-> "pending", deadline |-> t + CONNECT_TIMEOUT,
     browser |-> 0, cached |-> FALSE, outcome |-> NULL]

\* a Browser object: its connected getter, whether the module's
\* 'disconnected' listener is on it, and whether the event has been emitted
Browser == [connected |-> TRUE, listening |-> FALSE, notified |-> FALSE]

\* the value an ensureConnectedBrowser call returns: the cached Browser, or the
\* attempt's promise (issued: this call made the attempt)
ReturnedBrowser(b) == [browser |-> b, attempt |-> 0, issued |-> FALSE, pendingAtCall |-> conn.browserConnectPromise]
ReturnedPromise(a, issued) == [browser |-> 0, attempt |-> a, issued |-> issued, pendingAtCall |-> conn.browserConnectPromise]

CachedConnected ==
    /\ conn.connectedBrowser # 0
    /\ conn.browsers[conn.connectedBrowser].connected

\* the race of an attempt has settled and its .finally callback has not run
\* yet: the microtasks in between are not interleaved with timers or I/O events
MidChain ==
    \E a \in DOMAIN conn.attempts :
        /\ conn.attempts[a].race # "pending"
        /\ conn.attempts[a].outcome = NULL

ConnFrame == UNCHANGED <<held, rec, launch, quit, config, starts, tasks, timers, jobStates, running, active, completed, nextExec>>

\* mutant of EnsureConnectedBrowser: without
\* `if (browserConnectPromise) return browserConnectPromise`
EnsureConnectedNoShare ==
    /\ Len(conn.calls) < MaxCalls
    /\ IF CachedConnected
       THEN conn' = [conn EXCEPT !.calls = Append(@, ReturnedBrowser(conn.connectedBrowser))]
       ELSE /\ Len(conn.attempts) < MaxAttempts
            /\ conn' = [conn EXCEPT !.attempts = Append(@, Attempt(now)),
                                    !.browserConnectPromise = Len(conn.attempts) + 1,
                                    !.calls = Append(@, ReturnedPromise(Len(conn.attempts) + 1, TRUE))]
    /\ lastOp' = Op("ensureConnectedBrowser", NULL, NULL)
    /\ UNCHANGED now
    /\ ConnFrame

\* ensureConnectedBrowser(port): the synchronous body of the call
EnsureConnectedBrowser ==
    /\ Len(conn.calls) < MaxCalls
    /\ IF CachedConnected
       THEN conn' = [conn EXCEPT !.calls = Append(@, ReturnedBrowser(conn.connectedBrowser))]
       ELSE IF conn.browserConnectPromise # 0
       THEN conn' = [conn EXCEPT !.calls = Append(@, ReturnedPromise(conn.browserConnectPromise, FALSE))]
       ELSE /\ Len(conn.attempts) < MaxAttempts
            /\ conn' = [conn EXCEPT !.attempts = Append(@, Attempt(now)),
                                    !.browserConnectPromise = Len(conn.attempts) + 1,
                                    !.calls = Append(@, ReturnedPromise(Len(conn.attempts) + 1, TRUE))]
    /\ lastOp' = Op("ensureConnectedBrowser", NULL, NULL)
    /\ UNCHANGED now
    /\ ConnFrame

\* puppeteer.connect settles: with a new Browser, or with an error. The race
\* takes its result unless the timer has won already.
ConnectSettles(a, ok) ==
    /\ a \in DOMAIN conn.attempts
    /\ conn.attempts[a].connect = "pending"
    /\ ~MidChain
    /\ LET b == Len(conn.browsers) + 1
           first == conn.attempts[a].race = "pending"
       IN  conn' = [conn EXCEPT
                !.browsers = IF ok THEN Append(@, Browser) ELSE @,
                !.attempts[a].connect = IF ok THEN "resolved" ELSE "rejected",
                !.attempts[a].browser = IF ok THEN b ELSE 0,
                !.attempts[a].race = IF ~first THEN @ ELSE IF ok THEN "connected" ELSE "failed"]
    /\ lastOp' = Op("connectSettles", a, ok)
    /\ UNCHANGED now
    /\ ConnFrame

\* the setTimeout of the race fires
TimeoutFires(a) ==
    /\ a \in DOMAIN conn.attempts
    /\ conn.attempts[a].race = "pending"
    /\ now >= conn.attempts[a].deadline
    /\ ~MidChain
    /\ conn' = [conn EXCEPT !.attempts[a].race = "timeout"]
    /\ lastOp' = Op("timeoutFires", a, NULL)
    /\ UNCHANGED now
    /\ ConnFrame

\* .then(browser => ...): the Browser is cached and listened to
ThenRuns(a) ==
    /\ a \in DOMAIN conn.attempts
    /\ conn.attempts[a].race = "connected"
    /\ ~conn.attempts[a].cached
    /\ conn' = [conn EXCEPT !.connectedBrowser = conn.attempts[a].browser,
                            !.browsers[conn.attempts[a].browser].listening = TRUE,
                            !.attempts[a].cached = TRUE]
    /\ lastOp' = Op("then", a, NULL)
    /\ UNCHANGED now
    /\ ConnFrame

\* mutant of FinallyRuns: the .finally callback is missing, so a failed
\* attempt stays in browserConnectPromise
FinallyRunsKeepsPromise(a) ==
    /\ a \in DOMAIN conn.attempts
    /\ conn.attempts[a].outcome = NULL
    /\ \/ conn.attempts[a].race = "connected" /\ conn.attempts[a].cached
       \/ conn.attempts[a].race \in {"failed", "timeout"}
    /\ conn' = [conn EXCEPT
            !.browserConnectPromise = IF conn.attempts[a].race = "connected" THEN 0 ELSE @,
            !.attempts[a].outcome = Some(
                CASE conn.attempts[a].race = "connected" ->
                         [ok |-> TRUE, browser |-> conn.attempts[a].browser, error |-> NULL]
                  [] conn.attempts[a].race = "failed" ->
                         [ok |-> FALSE, browser |-> 0, error |-> Some(ConnectErrorMessage("refused"))]
                  [] OTHER ->
                         [ok |-> FALSE, browser |-> 0, error |-> Some(ConnectErrorMessage("Browser connection timed out after 30s"))])]
    /\ lastOp' = Op("finally", a, NULL)
    /\ UNCHANGED now
    /\ ConnFrame

\* .catch(...) rethrows as BrowserConnectionError, .finally(...) clears
\* browserConnectPromise, and the promise settles
FinallyRuns(a) ==
    /\ a \in DOMAIN conn.attempts
    /\ conn.attempts[a].outcome = NULL
    /\ \/ conn.attempts[a].race = "connected" /\ conn.attempts[a].cached
       \/ conn.attempts[a].race \in {"failed", "timeout"}
    /\ conn' = [conn EXCEPT
            !.browserConnectPromise = 0,
            !.attempts[a].outcome = Some(
                CASE conn.attempts[a].race = "connected" ->
                         [ok |-> TRUE, browser |-> conn.attempts[a].browser, error |-> NULL]
                  [] conn.attempts[a].race = "failed" ->
                         [ok |-> FALSE, browser |-> 0, error |-> Some(ConnectErrorMessage("refused"))]
                  [] OTHER ->
                         [ok |-> FALSE, browser |-> 0, error |-> Some(ConnectErrorMessage("Browser connection timed out after 30s"))])]
    /\ lastOp' = Op("finally", a, NULL)
    /\ UNCHANGED now
    /\ ConnFrame

\* a Browser loses its connection and emits 'disconnected': the listener, if
\* on it, clears the cache
BrowserDisconnects(b) ==
    /\ b \in DOMAIN conn.browsers
    /\ conn.browsers[b].connected
    /\ ~MidChain
    /\ conn' = [conn EXCEPT !.browsers[b].connected = FALSE,
                            !.browsers[b].notified = TRUE,
                            !.connectedBrowser = IF conn.browsers[b].listening THEN 0 ELSE @]
    /\ lastOp' = Op("disconnected", b, NULL)
    /\ UNCHANGED now
    /\ ConnFrame

\* disconnectBrowser(): disconnects the cached Browser and clears the cache.
\* Browser.disconnect() returns a promise, which is not awaited: the
\* 'disconnected' event of that Browser comes during the call or after it.
Disconnected(c) ==
    IF c.connectedBrowser = 0 THEN c
    ELSE [c EXCEPT !.browsers[c.connectedBrowser].connected = FALSE,
                   !.connectedBrowser = 0]

DisconnectBrowser ==
    /\ ~MidChain
    /\ conn' = Disconnected(conn)
    /\ lastOp' = Op("disconnectBrowser", NULL, NULL)
    /\ UNCHANGED now
    /\ ConnFrame

\* variant of DisconnectedFires: a listener that clears the cache only when
\* it holds the Browser that emitted the event
DisconnectedFiresOwnOnly(b) ==
    /\ b \in DOMAIN conn.browsers
    /\ ~conn.browsers[b].connected /\ ~conn.browsers[b].notified
    /\ ~MidChain
    /\ conn' = [conn EXCEPT !.browsers[b].notified = TRUE,
                            !.connectedBrowser =
                                IF conn.browsers[b].listening /\ conn.connectedBrowser = b
                                THEN 0 ELSE @]
    /\ lastOp' = Op("disconnectedEvent", b, NULL)
    /\ UNCHANGED now
    /\ ConnFrame

\* the 'disconnected' event of a Browser that disconnectBrowser disconnected:
\* the listener `() => { connectedBrowser = null; }` runs
DisconnectedFires(b) ==
    /\ b \in DOMAIN conn.browsers
    /\ ~conn.browsers[b].connected /\ ~conn.browsers[b].notified
    /\ ~MidChain
    /\ conn' = [conn EXCEPT !.browsers[b].notified = TRUE,
                            !.connectedBrowser = IF conn.browsers[b].listening THEN 0 ELSE @]
    /\ lastOp' = Op("disconnectedEvent", b, NULL)
    /\ UNCHANGED now
    /\ ConnFrame

\* time passes while an attempt waits, at most up to its timer
Elapse(d) ==
    /\ ~MidChain
    /\ \E a \in DOMAIN conn.attempts :
           /\ conn.attempts[a].race = "pending"
           /\ now < conn.attempts[a].deadline
           /\ now' = Min(now + d, conn.attempts[a].deadline)
    /\ lastOp' = Op("elapse", d, NULL)
    /\ UNCHANGED conn
    /\ ConnFrame

NextConnect ==
    \/ EnsureConnectedBrowser
    \/ \E a \in 1..MaxAttempts, ok \in BOOLEAN : ConnectSettles(a, ok)
    \/ \E a \in 1..MaxAttempts : TimeoutFires(a)
    \/ \E a \in 1..MaxAttempts : ThenRuns(a)
    \/ \E a \in 1..MaxAttempts : FinallyRuns(a)
    \/ \E b \in 1..MaxAttempts : BrowserDisconnects(b)
    \/ DisconnectBrowser
    \/ \E b \in 1..MaxAttempts : DisconnectedFires(b)
    \/ \E d \in Waits : Elapse(d)

SpecConnect == Init /\ [][NextConnect]_vars

(* ---- browser.ts, launch mode: launchBrowser, ensureBrowser, closeBrowser ---- *)
\* calls of ensureBrowser, of launchBrowser and of closeBrowser a behaviour may make
MaxEnsures == 3
MaxLaunches == 3
MaxCloses == 2

\* `Failed to launch browser: ${err.message}`
LaunchErrorMessage == Msg("Failed to launch browser", "spawn")

\* One launchBrowser call.
\*   state:     puppeteer.launch and the rest of launchBrowser: "pending",
\*              "resolved" (launchedBrowser assigned), "rejected"
\*   browser:   the Browser it produced, 0 for none (yet)
\*   viaEnsure: called by ensureBrowser, which stores its promise, and not by
\*              the main module at startup
\*   outcome:   what the promise that the caller holds settled with, NULL
\*              while it is pending
Launch(viaEnsure) ==
    [state |-> "pending", browser |-> 0, viaEnsure |-> viaEnsure, outcome |-> NULL]

\* a launched Browser: its connected getter, and whether its process runs
LaunchedBrowser == [connected |-> TRUE, running |-> TRUE]

\* the value an ensureBrowser call returns: the cached Browser, or the
\* promise of a launch (issued: this call made the launch)
EnsuredBrowser(b) == [browser |-> b, launch |-> 0, issued |-> FALSE]
EnsuredPromise(l, issued) == [browser |-> 0, launch |-> l, issued |-> issued]

LaunchedConnected ==
    /\ launch.launchedBrowser # 0
    /\ launch.browsers[launch.launchedBrowser].connected

\* the main module has launched the browser and gone on to start the
\* scheduler and the server: from here on recordings call ensureBrowser
StartupDone ==
    /\ launch.launches # << >>
    /\ launch.launches[1].state = "resolved"

\* a launch has settled and its .finally callback has not run yet: the
\* microtasks in between are not interleaved with timers or I/O events
MidLaunch ==
    \E l \in DOMAIN launch.launches :
        /\ launch.launches[l].state # "pending"
        /\ launch.launches[l].outcome = NULL

LaunchFrame == UNCHANGED <<held, rec, conn, quit, schedulerVars>>

\* main, step "Launch browser if launch mode": launchBrowser(...) is called
\* once, and awaited, before the scheduler is started
LaunchBrowser ==
    /\ launch.launches = << >>
    /\ launch' = [launch EXCEPT !.launches = <<Launch(FALSE)>>]
    /\ lastOp' = Op("launchBrowser", NULL, NULL)
    /\ LaunchFrame

\* mutant of EnsureBrowser: without
\* `if (browserLaunchPromise) return browserLaunchPromise`
EnsureBrowserNoShare ==
    /\ StartupDone
    /\ Len(launch.calls) < MaxEnsures
    /\ IF LaunchedConnected
       THEN launch' = [launch EXCEPT !.calls = Append(@, EnsuredBrowser(launch.launchedBrowser))]
       ELSE /\ Len(launch.launches) < MaxLaunches
            /\ launch' = [launch EXCEPT !.launches = Append(@, Launch(TRUE)),
                                        !.browserLaunchPromise = Len(launch.launches) + 1,
                                        !.calls = Append(@, EnsuredPromise(Len(launch.launches) + 1, TRUE))]
    /\ lastOp' = Op("ensureBrowser", NULL, NULL)
    /\ LaunchFrame

\* mutant of EnsureBrowser: without the test of `launchedBrowser.connected`
EnsureBrowserAnyCached ==
    /\ StartupDone
    /\ Len(launch.calls) < MaxEnsures
    /\ IF launch.launchedBrowser # 0
       THEN launch' = [launch EXCEPT !.calls = Append(@, EnsuredBrowser(launch.launchedBrowser))]
       ELSE IF launch.browserLaunchPromise # 0
       THEN launch' = [launch EXCEPT !.calls = Append(@, EnsuredPromise(launch.browserLaunchPromise, FALSE))]
       ELSE /\ Len(launch.launches) < MaxLaunches
            /\ launch' = [launch EXCEPT !.launches = Append(@, Launch(TRUE)),
                                        !.browserLaunchPromise = Len(launch.launches) + 1,
                                        !.calls = Append(@, EnsuredPromise(Len(launch.launches) + 1, TRUE))]
    /\ lastOp' = Op("ensureBrowser", NULL, NULL)
    /\ LaunchFrame

\* ensureBrowser(executablePath, headless): the synchronous body of the call
EnsureBrowser ==
    /\ StartupDone
    /\ Len(launch.calls) < MaxEnsures
    /\ IF LaunchedConnected
       THEN launch' = [launch EXCEPT !.calls = Append(@, EnsuredBrowser(launch.launchedBrowser))]
       ELSE IF launch.browserLaunchPromise # 0
       THEN launch' = [launch EXCEPT !.calls = Append(@, EnsuredPromise(launch.browserLaunchPromise, FALSE))]
       ELSE /\ Len(launch.launches) < MaxLaunches
            /\ launch' = [launch EXCEPT !.launches = Append(@, Launch(TRUE)),
                                        !.browserLaunchPromise = Len(launch.launches) + 1,
                                        !.calls = Append(@, EnsuredPromise(Len(launch.launches) + 1, TRUE))]
    /\ lastOp' = Op("ensureBrowser", NULL, NULL)
    /\ LaunchFrame

\* what a launch's promise settles with
LaunchOutcome(ok, b) ==
    IF ok THEN [ok |-> TRUE, browser |-> b, error |-> NULL]
          ELSE [ok |-> FALSE, browser |-> 0, error |-> Some(LaunchErrorMessage)]

\* puppeteer.launch settles and launchBrowser runs to its end: the new
\* Browser is assigned to launchedBrowser, or the error is rethrown
LaunchSettles(l, ok) ==
    /\ l \in DOMAIN launch.launches
    /\ launch.launches[l].state = "pending"
    /\ ~MidLaunch
    /\ LET b == Len(launch.browsers) + 1
       IN  launch' = [launch EXCEPT
                !.browsers = IF ok THEN Append(@, LaunchedBrowser) ELSE @,
                !.launchedBrowser = IF ok THEN b ELSE @,
                !.launches[l].state = IF ok THEN "resolved" ELSE "rejected",
                !.launches[l].browser = IF ok THEN b ELSE 0,
                !.launches[l].outcome =
                    IF launch.launches[l].viaEnsure THEN NULL ELSE Some(LaunchOutcome(ok, b))]
    /\ lastOp' = Op("launchSettles", l, ok)
    /\ LaunchFrame

\* .finally(() => { browserLaunchPromise = null; }), and the promise settles
LaunchFinally(l) ==
    /\ l \in DOMAIN launch.launches
    /\ launch.launches[l].state # "pending"
    /\ launch.launches[l].outcome = NULL
    /\ launch' = [launch EXCEPT
            !.browserLaunchPromise = 0,
            !.launches[l].outcome =
                Some(LaunchOutcome(launch.launches[l].state = "resolved", launch.launches[l].browser))]
    /\ lastOp' = Op("launchFinally", l, NULL)
    /\ LaunchFrame

\* the process of a launched Browser exits: its handle reports disconnected
LaunchedBrowserExits(b) ==
    /\ b \in DOMAIN launch.browsers
    /\ launch.browsers[b].running
    /\ ~MidLaunch
    /\ launch' = [launch EXCEPT !.browsers[b] = [connected |-> FALSE, running |-> FALSE]]
    /\ lastOp' = Op("browserExits", b, NULL)
    /\ LaunchFrame

\* closeBrowser(), up to its await: with a cached handle, close() is called on
\* it; with none, the call is over. ensures and launches: the ensureBrowser
\* and launchBrowser calls made before this one.
Closing(l) ==
    [l EXCEPT !.closes = Append(@,
        [browser |-> l.launchedBrowser, settled |-> l.launchedBrowser = 0,
         wasRunning |-> IF l.launchedBrowser = 0 THEN FALSE
                        ELSE l.browsers[l.launchedBrowser].running,
         ensures |-> Len(l.calls), launches |-> Len(l.launches),
         result |-> "resolved"])]

CloseBrowser ==
    /\ Len(launch.closes) < MaxCloses
    /\ ~MidLaunch
    /\ launch' = Closing(launch)
    /\ lastOp' = Op("closeBrowser", NULL, NULL)
    /\ LaunchFrame

\* mutant of BrowserCloseSettles: without `launchedBrowser = null`
BrowserCloseSettlesKeepsHandle(c) ==
    /\ c \in DOMAIN launch.closes
    /\ ~launch.closes[c].settled
    /\ ~MidLaunch
    /\ launch' = [launch EXCEPT
            !.browsers[launch.closes[c].browser] = [connected |-> FALSE, running |-> FALSE],
            !.closes[c].settled = TRUE]
    /\ lastOp' = Op("closeSettles", c, NULL)
    /\ LaunchFrame

\* close() settles: resolved with the process terminated, or thrown because
\* the Browser was closed already, which is caught; launchedBrowser is cleared
BrowserCloseSettles(c) ==
    /\ c \in DOMAIN launch.closes
    /\ ~launch.closes[c].settled
    /\ ~MidLaunch
    /\ launch' = [launch EXCEPT
            !.browsers[launch.closes[c].browser] = [connected |-> FALSE, running |-> FALSE],
            !.launchedBrowser = 0,
            !.closes[c].settled = TRUE]
    /\ lastOp' = Op("closeSettles", c, NULL)
    /\ LaunchFrame

NextLaunch ==
    \/ LaunchBrowser
    \/ EnsureBrowser
    \/ \E l \in 1..MaxLaunches, ok \in BOOLEAN : LaunchSettles(l, ok)
    \/ \E l \in 1..MaxLaunches : LaunchFinally(l)
    \/ \E b \in 1..MaxLaunches : LaunchedBrowserExits(b)
    \/ CloseBrowser
    \/ \E c \in 1..MaxCloses : BrowserCloseSettles(c)

SpecLaunch == Init /\ [][NextLaunch]_vars

(* ---- browser.ts in the mode the configuration selects --------------------- *)
\* config.executablePath decides the mode for the life of the process: the
\* functions of the other mode are never called
NextBrowser ==
    \/ launch = NoLaunch /\ NextConnect
    \/ conn = NoConnection /\ NextLaunch

SpecBrowser == Init /\ [][NextBrowser]_vars

(* ---- main: shutdown --------------------------------------------------------- *)
\* how long shutdown waits for the active recordings, and how often it looks, in ms
SHUTDOWN_WAIT == 5000
POLL_INTERVAL == 250

\* stopDebugChrome(); disconnectBrowser(); closeBrowser() up to its await
Release ==
    /\ conn' = Disconnected(conn)
    /\ launch' = Closing(launch)

\* `while (getActiveRecordings().length > 0 && Date.now() < deadline)`
StillWaiting(act, t, deadline) == DOMAIN act # {} /\ t < deadline

\* shutdown(), from its call to its first await: the server is closed, the
\* scheduler stopped, every active recording told to stop; then either the
\* first sleep of the wait, or the release of the browser
ShutdownBegins ==
    /\ quit.pc = "running"
    /\ ~MidChain /\ ~MidLaunch
    /\ SetRegistries(Stopped(Registries))
    /\ running' = Abort(ActiveExecs)
    /\ LET stopped == Cardinality(DOMAIN active)
           deadline == now + SHUTDOWN_WAIT
       IN  IF stopped > 0 /\ StillWaiting(active, now, deadline)
           THEN /\ quit' = [pc |-> "waiting", stopped |-> stopped, deadline |-> deadline,
                            wake |-> now + POLL_INTERVAL]
                /\ UNCHANGED <<conn, launch>>
           ELSE /\ quit' = [pc |-> "closing", stopped |-> stopped, deadline |-> 0, wake |-> 0]
                /\ Release
    /\ lastOp' = Op("shutdown", NULL, NULL)
    /\ UNCHANGED <<held, rec, now, config, starts, active, completed, nextExec>>

\* the 250 ms sleep of the wait ends and the loop condition is tested again
ShutdownPoll ==
    /\ quit.pc = "waiting"
    /\ ~MidChain /\ ~MidLaunch
    /\ now' = quit.wake
    /\ timers' = [k \in DOMAIN timers |-> [timers[k] EXCEPT !.fired = FALSE]]
    /\ IF StillWaiting(active, quit.wake, quit.deadline)
       THEN /\ quit' = [quit EXCEPT !.wake = quit.wake + POLL_INTERVAL]
            /\ UNCHANGED <<conn, launch>>
       ELSE /\ quit' = [quit EXCEPT !.pc = "closing"]
            /\ Release
    /\ lastOp' = Op("shutdownPoll", NULL, NULL)
    /\ UNCHANGED <<held, rec, config, starts, tasks, jobStates, running, active, completed, nextExec>>

\* `await closeBrowser()` returns and app.quit() ends the process
ShutdownEnds ==
    /\ quit.pc = "closing"
    /\ \A c \in DOMAIN launch.closes : launch.closes[c].settled
    /\ quit' = [quit EXCEPT !.pc = "quit"]
    /\ lastOp' = Op("quit", NULL, NULL)
    /\ UNCHANGED <<held, rec, conn, launch, schedulerVars>>

\* launch mode after the startup of the main module: the browser is
\* launched and cached
LaunchedAtStartup ==
    [NoLaunch EXCEPT !.launchedBrowser = 1,
                     !.browsers = <<LaunchedBrowser>>,
                     !.launches = <<[Launch(FALSE) EXCEPT !.state = "resolved", !.browser = 1,
                                                          !.outcome = Some(LaunchOutcome(TRUE, 1))]>>]

\* the application in launch mode, just after main has started the scheduler
\* with ConfigA
InitShutdown ==
    LET st == Started(ConfigA, 1, EmptyRegistries)
    IN  /\ now = 0
        /\ config = ConfigA
        /\ starts = 1
        /\ tasks = st.tasks
        /\ timers = st.timers
        /\ jobStates = st.jobStates
        /\ running = << >>
        /\ active = << >>
        /\ completed = << >>
        /\ nextExec = 1
        /\ lastOp = Op("start", NULL, NULL)
        /\ held = NULL
        /\ rec = NULL
        /\ conn = NoConnection
        /\ launch = LaunchedAtStartup
        /\ quit = NotQuitting

\* Until app.quit() the event loop goes on serving what was under way when
\* shutdown was called: timers, recordings, and the requests the server had
\* accepted (a trigger, a stop, a configuration that was being saved).
NextShutdown ==
    \/ ShutdownBegins
    \/ ShutdownPoll
    \/ ShutdownEnds
    \/ \E c \in 1..MaxCloses : BrowserCloseSettles(c)
    \/ quit.pc # "quit" /\ \E jobId \in {Job1.id, Job2.id} : TriggerJob(jobId)
    \/ quit.pc # "quit" /\ \E k \in DOMAIN timers : TimerFire(k)
    \/ quit.pc # "quit" /\ \E e \in DOMAIN running, outcome \in Outcomes : CompleteJob(e, outcome)
    \/ quit.pc # "quit" /\ RestartScheduler(config)
    \/ quit.pc # "quit" /\ \E id \in DOMAIN active : StopRecording(id)

SpecShutdown == InitShutdown /\ [][NextShutdown]_vars

(* ---- callers of the read operations ---------------------------------------- *)
\* A caller keeps what a read operation returned: op names the operation,
\* seen is the content of the value when it was returned, refs names the
\* objects the value refers to (JavaScript arrays and objects are references),
\* edited tells whether the caller has written to the value since.
Holding(op, refs, seen) == [op |-> op, refs |-> refs, seen |-> seen, edited |-> FALSE]

\* the RecordingInstance object created by execution e: it is referred to by
\* the entry of activeRecordings until the execution ends and by
\* completedRecordings after that
InstanceOf(e) ==
    IF e \in DOMAIN running THEN running[e].instance
    ELSE completed[CHOOSE i \in DOMAIN completed : completed[i].exec = e].instance

\* getActiveRecordings(): a new array of the instance objects of the entries
GetActiveRecordings ==
    /\ held = NULL
    /\ rec = NULL
    /\ held' = Holding("getActiveRecordings", ActiveExecs, [e \in ActiveExecs |-> running[e].instance])
    /\ lastOp' = Op("getActiveRecordings", NULL, NULL)
    /\ UNCHANGED <<schedulerVars, rec, conn, launch, quit>>

\* getCompletedRecordings(): the array completedRecordings itself
GetCompletedRecordings ==
    /\ held = NULL
    /\ rec = NULL
    /\ held' = Holding("getCompletedRecordings", "completedRecordings", getCompletedRecordings)
    /\ lastOp' = Op("getCompletedRecordings", NULL, NULL)
    /\ UNCHANGED <<schedulerVars, rec, conn, launch, quit>>

\* getJobStates(): a new array of the JobState objects of jobStates
GetJobStates ==
    /\ held = NULL
    /\ rec = NULL
    /\ held' = Holding("getJobStates", DOMAIN jobStates, jobStates)
    /\ lastOp' = Op("getJobStates", NULL, NULL)
    /\ UNCHANGED <<schedulerVars, rec, conn, launch, quit>>

\* the content, in the current state, of the value the caller holds
Returned ==
    CASE held.op = "getActiveRecordings"    -> [e \in held.refs |-> InstanceOf(e)]
      [] held.op = "getCompletedRecordings" -> getCompletedRecordings
      [] held.op = "getJobStates"           -> [id \in held.refs |-> jobStates[id]]

\* the caller writes to the first element of the array it holds:
\* returned[0].error = "edited" (lastError for a JobState)
CallerEdits ==
    /\ held # NULL
    /\ ~held.edited
    /\ DOMAIN Returned # {}
    /\ held' = [held EXCEPT !.edited = TRUE]
    /\ CASE held.op = "getActiveRecordings" ->
               LET e == CHOOSE x \in held.refs : \A y \in held.refs : x <= y
               IN  IF e \in DOMAIN running
                   THEN /\ running' = [running EXCEPT ![e].instance.error = Some("edited")]
                        /\ UNCHANGED <<completed, jobStates>>
                   ELSE /\ completed' = [i \in DOMAIN completed |->
                                            IF completed[i].exec = e
                                            THEN [completed[i] EXCEPT !.instance.error = Some("edited")]
                                            ELSE completed[i]]
                        /\ UNCHANGED <<running, jobStates>>
         [] held.op = "getCompletedRecordings" ->
               /\ completed' = [completed EXCEPT ![1].instance.error = Some("edited")]
               /\ UNCHANGED <<running, jobStates>>
         [] held.op = "getJobStates" ->
               /\ jobStates' = [jobStates EXCEPT ![config[1].id].lastError = Some("edited")]
               /\ UNCHANGED <<running, completed>>
    /\ lastOp' = Op("edit", NULL, NULL)
    /\ UNCHANGED <<rec, conn, launch, quit, now, config, starts, tasks, timers, active, nextExec>>

\* The scheduler of InitHistory with a caller of the read operations, up to
\* the next stopScheduler: the JobState objects stay those of jobStates.
NextReads ==
    \/ Tick
    \/ \E jobId \in TriggerIds : TriggerJob(jobId)
    \/ \E k \in DOMAIN timers : TimerFire(k)
    \/ \E e \in DOMAIN running, outcome \in Outcomes : CompleteJob(e, outcome)
    \/ GetActiveRecordings
    \/ GetCompletedRecordings
    \/ GetJobStates
    \/ CallerEdits

SpecReads == InitHistory /\ [][NextReads]_vars

(* ---- C14 ------------------------------------------------------------------ *)
\* C14: what a read operation returned is a snapshot: as long as the caller
\* does not write to it, its content stays what it was when it was returned,
\* whatever the scheduler does afterwards; and a write of the caller to it
\* changes nothing in the scheduler's job states, active set, instances or
\* completed history.
C14_ReadsReturnSnapshots ==
    /\ []((held # NULL /\ ~held.edited) => Returned = held.seen)
    /\ [][CallerEdits => UNCHANGED <<jobStates, running, active, completed>>]_vars

(* ---- C15 ------------------------------------------------------------------ *)
\* the steps of record() that can fail before the capture loop
Stages == {"ensure", "pages", "newPage", "goto", "setViewport"}

\* C15: record() never throws: a failure of the browser connection or launch,
\* of the page lookup or navigation, of setViewport or of recordPage ends the
\* call with the result {success: false, error}; executeJob then moves the
\* instance to the completed history with status error and that message, and
\* the job's JobState shows lastResult error and the message as lastError.
C15_RecordNeverThrows ==
    /\ []((rec # NULL /\ rec.result # NULL) => ~rec.result.thrown)
    /\ [][(/\ rec # NULL
            /\ \/ lastOp'.op \in Stages /\ lastOp'.ret = FALSE
               \/ lastOp'.op = "recordPage" /\ lastOp'.ret # NULL) =>
               /\ rec'.pc \in {"closing", "returned"}
               /\ rec'.result # NULL
               /\ ~rec'.result.success /\ ~rec'.result.thrown
               /\ rec'.result.error # NULL]_vars
    /\ [][(FinishRecorded /\ ~rec.result.success) =>
               LET e   == rec.exec
                   job == rec.job
               IN  /\ e \notin DOMAIN running'
                   /\ running[e].instance.id \notin DOMAIN active'
                   /\ completed'[1].exec = e
                   /\ completed'[1].instance.status = "error"
                   /\ completed'[1].instance.error = rec.result.error
                   /\ jobStates'[job.id].lastResult = Some("error")
                   /\ jobStates'[job.id].lastError = rec.result.error
                   /\ lastOp'.ret = "error"]_vars

\* a recording whose navigation failed is in the history with status error,
\* and the scheduler has accepted a trigger after it
C15_Witness ==
    /\ lastOp.op = "trigger" /\ lastOp.ret.triggered
    /\ rec = NULL
    /\ completed # << >>
    /\ completed[1].instance.status = "error"
    /\ completed[1].instance.error = Some(BrowserErrorMessage("goto"))
    /\ running # << >>

(* ---- C16 ------------------------------------------------------------------ *)
\* C16: recordPage returns normally, and record() reports success, if and
\* only if at least one frame was written to the encoder and the encoder
\* closed with exit code 0, whatever ended the loop.
C16_SuccessIffFrameAndExitZero ==
    /\ [][ProcDoneSettles =>
             (rec'.result.success <=> (rec.totalFrames >= 1 /\ rec.exit = Closed(0)))]_vars
    /\ []((rec # NULL /\ rec.result # NULL /\ rec.result.success) =>
             (rec.totalFrames >= 1 /\ rec.exit = Closed(0)))

\* a recording that was cancelled after its first frame, and whose pipe broke,
\* reports success because the encoder closed with 0
C16_Witness ==
    /\ rec # NULL /\ rec.result # NULL /\ rec.result.success
    /\ rec.totalFrames = 1
    /\ rec.destroyed
    /\ running[rec.exec].aborted

(* ---- C17 ------------------------------------------------------------------ *)
\* C17: when the loop ends with no frame written, recordPage fails with the
\* error that names 0 frames, whatever the encoder's exit code, and the
\* recording completes with status error and that message.
C17_ZeroFramesIsFailure ==
    /\ [][(ProcDoneSettles /\ rec.totalFrames = 0) =>
             /\ ~rec'.result.success
             /\ rec'.result.error = Some(ZeroFramesMessage)
             /\ Contains(rec'.result.error[1].text, <<"0", "frames">>)]_vars
    /\ [][(FinishRecorded /\ rec.result.error = Some(ZeroFramesMessage)) =>
             /\ completed'[1].exec = rec.exec
             /\ completed'[1].instance.status = "error"
             /\ completed'[1].instance.error = Some(ZeroFramesMessage)]_vars

\* the first screenshot failed, the encoder closed with 0 and the call has
\* ended with the zero-frames error
C17_Witness ==
    /\ rec # NULL /\ rec.pc = "returned"
    /\ rec.attempts = 1 /\ rec.totalFrames = 0
    /\ rec.exit = Closed(0)
    /\ rec.result.error = Some(ZeroFramesMessage)

(* ---- C18 ------------------------------------------------------------------ *)
\* the last n characters of a stream of total characters
LastOf(total, n) == [lo |-> Max(1, total - n + 1), hi |-> total]

\* C18: when at least one frame was written and the encoder closes with a
\* code other than 0, recordPage fails with an error that names the code and
\* ends with the last 500 characters the encoder wrote to stderr (all of
\* them when it wrote fewer), and the recording completes with status error
\* and that message.
C18_ExitCodeCarriesStderrTail ==
    /\ [][(/\ ProcDoneSettles
            /\ rec.totalFrames >= 1
            /\ rec.exit.event = "close" /\ rec.exit.code # 0) =>
             /\ ~rec'.result.success
             /\ rec'.result.error[1].text = <<"ffmpeg", "exited", "with", "code", ToString(rec.exit.code)>>
             /\ rec'.result.error[1].detail = Some(LastOf(rec.stderr.hi, STDERR_TAIL))]_vars
    /\ [][(FinishRecorded /\ rec.totalFrames >= 1 /\ rec.exit # NULL /\ rec.exit = Closed(1)) =>
             /\ completed'[1].exec = rec.exec
             /\ completed'[1].instance.status = "error"
             /\ completed'[1].instance.error =
                    Some(Msg(<<"ffmpeg", "exited", "with", "code", "1">>,
                             Some(LastOf(rec.stderr.hi, STDERR_TAIL))))]_vars

\* a recording with frames written has completed with status error after the
\* encoder wrote more to stderr than the buffer keeps and closed with 1
C18_Witness ==
    /\ lastOp.op = "complete" /\ lastOp.ret = "error"
    /\ rec = NULL /\ running = << >>
    /\ Len(completed) = 1
    /\ completed[1].instance.error[1].detail = Some([lo |-> 2 * 4000 - STDERR_TAIL + 1, hi |-> 2 * 4000])

(* ---- C19 ------------------------------------------------------------------ *)
\* C19: as long as every capture plus write has taken less than the capture
\* interval I = 1000 / captureFps, the k-th screenshot (k = 0, 1, ...) is
\* asked for at startTime + k * I, whatever the earlier latencies were; no
\* screenshot is asked for at or after startTime + durationSeconds; and with
\* captureFps 2, durationSeconds 10 and no latency the loop ends at
\* startTime + 10000 after exactly 20 screenshots.
C19_NoCumulativeDrift ==
    rec # NULL =>
        LET I == CaptureInterval(rec.job)
        IN  /\ (rec.pc = "screenshot" /\ rec.slowest < I) =>
                   rec.captureAt = rec.startTime + (rec.attempts - 1) * I
            /\ rec.pc = "screenshot" =>
                   rec.captureAt < rec.startTime + 1000 * rec.job.durationSeconds
            /\ (/\ rec.pc = "procDone"
                /\ CaptureFps(rec.job) = 2 /\ rec.job.durationSeconds = 10
                /\ rec.slowest = 0) =>
                   /\ rec.attempts = 20 /\ rec.totalFrames = 20
                   /\ now = rec.startTime + 10000

\* the twentieth screenshot of Job1 is asked for at 9500 ms after captures
\* that took time, none as long as the interval
C19_Witness ==
    /\ rec # NULL /\ rec.job = Job1
    /\ rec.pc = "screenshot"
    /\ rec.attempts = 20 /\ rec.captureAt = 9500
    /\ rec.slowest > 0 /\ rec.slowest < CaptureInterval(Job1)

(* ---- C20 ------------------------------------------------------------------ *)
\* the attempts whose promise has not settled
PendingAttempts == {a \in DOMAIN conn.attempts : conn.attempts[a].outcome = NULL}

\* C20: in connect mode at most one connect attempt is pending at any time,
\* and it is the one browserConnectPromise holds; an ensureConnectedBrowser
\* call made while an attempt is pending issues no connect, and what it
\* returns is that attempt's promise or, once the attempt has cached its
\* Browser, that Browser: the outcome of that same attempt.
C20_ConnectAttemptIsShared ==
    [][ /\ Cardinality(PendingAttempts') <= 1
        /\ PendingAttempts' \subseteq {conn'.browserConnectPromise}
        /\ (EnsureConnectedBrowser /\ conn.browserConnectPromise # 0) =>
               LET a == conn.browserConnectPromise
                   call == conn'.calls[Len(conn'.calls)]
               IN  /\ conn'.attempts = conn.attempts
                   /\ ~call.issued
                   /\ \/ call.attempt = a
                      \/ /\ call.browser # 0
                         /\ call.browser = conn.attempts[a].browser
      ]_vars

\* two calls were made while the first attempt was pending, one connect was
\* issued, and the attempt they share has ended at its ceiling
C20_Witness ==
    /\ Len(conn.calls) = 3
    /\ \A c \in 1..3 : conn.calls[c].attempt = 1
    /\ conn.calls[1].issued /\ ~conn.calls[2].issued /\ ~conn.calls[3].issued
    /\ Len(conn.attempts) = 1
    /\ conn.attempts[1].outcome # NULL
    /\ ~conn.attempts[1].outcome[1].ok
    /\ conn.attempts[1].race = "timeout"
    /\ now = CONNECT_TIMEOUT

(* ---- C21 ------------------------------------------------------------------ *)
\* the launches that have not produced their Browser or failed
PendingLaunches == {l \in DOMAIN launch.launches : launch.launches[l].state = "pending"}

\* C21: in launch mode at most one launch is in flight at any time; an
\* ensureBrowser call made while a launch is pending starts no launch and
\* returns the promise of that launch.
C21_LaunchIsShared ==
    [][ /\ Cardinality(PendingLaunches') <= 1
        /\ (EnsureBrowser /\ PendingLaunches # {}) =>
               LET call == launch'.calls[Len(launch'.calls)]
               IN  /\ launch'.launches = launch.launches
                   /\ ~call.issued
                   /\ call.launch \in PendingLaunches
      ]_vars

\* the browser has exited, three recordings have asked for it while the one
\* relaunch was pending, and that relaunch has given them its Browser
C21_Witness ==
    /\ Len(launch.calls) = 3
    /\ \A c \in 1..3 : launch.calls[c].launch = 2
    /\ launch.calls[1].issued /\ ~launch.calls[2].issued /\ ~launch.calls[3].issued
    /\ Len(launch.launches) = 2
    /\ launch.launches[2].outcome # NULL
    /\ launch.launches[2].outcome[1].ok
    /\ Len(launch.browsers) = 2

(* ---- C22 ------------------------------------------------------------------ *)
\* a Browser that was cached in connect mode and has disconnected
WasCachedConnect == {b \in DOMAIN conn.browsers : conn.browsers[b].listening /\ ~conn.browsers[b].connected}

\* C22: an ensure call never returns a disconnected handle, neither from the
\* cache nor through the promise of an attempt; when the handle that was
\* cached has disconnected and nothing is pending, the call makes a new
\* connect attempt (connect mode) or a new launch (launch mode).
C22_DisconnectedHandleNotReturned ==
    [][ /\ EnsureConnectedBrowser =>
               LET call == conn'.calls[Len(conn'.calls)]
               IN  /\ call.browser # 0 => conn.browsers[call.browser].connected
                   /\ (call.attempt # 0 /\ ~call.issued) =>
                          \/ conn.attempts[call.attempt].browser = 0
                          \/ conn.browsers[conn.attempts[call.attempt].browser].connected
                   /\ (WasCachedConnect # {} /\ ~CachedConnected /\ conn.browserConnectPromise = 0) =>
                          /\ conn.connectedBrowser = 0
                          /\ call.issued
                          /\ Len(conn'.attempts) = Len(conn.attempts) + 1
        /\ EnsureBrowser =>
               LET call == launch'.calls[Len(launch'.calls)]
               IN  /\ call.browser # 0 => launch.browsers[call.browser].connected
                   /\ (call.launch # 0 /\ ~call.issued) =>
                          \/ launch.launches[call.launch].browser = 0
                          \/ launch.browsers[launch.launches[call.launch].browser].connected
                   /\ (/\ launch.launchedBrowser # 0 /\ ~LaunchedConnected
                       /\ launch.browserLaunchPromise = 0) =>
                          /\ call.issued
                          /\ Len(launch'.launches) = Len(launch.launches) + 1
      ]_vars

\* connect mode: the first Browser was cached and has disconnected, and the
\* call after that has made a second attempt, which has cached a second Browser
C22_Witness ==
    /\ Len(conn.browsers) = 2
    /\ conn.browsers[1].listening /\ ~conn.browsers[1].connected
    /\ Len(conn.calls) >= 2
    /\ conn.calls[2].issued /\ conn.calls[2].attempt = 2
    /\ conn.connectedBrowser = 2
    /\ conn.browsers[2].connected

(* ---- C23 ------------------------------------------------------------------ *)
\* C23: closeBrowser() with a cached handle ends with the process of that
\* handle terminated and launchedBrowser null, also when the process had
\* exited before; closeBrowser() with no cached handle (nothing launched, or
\* closed before) changes nothing; no closeBrowser() call fails.
C23_CloseIsIdempotent ==
    [][ /\ \A c \in DOMAIN launch.closes : BrowserCloseSettles(c) =>
               /\ launch.closes[c].browser # 0
               /\ ~launch'.browsers[launch.closes[c].browser].running
               /\ launch'.launchedBrowser = 0
               /\ launch'.closes[c].settled
        /\ (CloseBrowser /\ launch.launchedBrowser = 0) =>
               /\ launch'.closes[Len(launch'.closes)].settled
               /\ launch'.launchedBrowser = 0
               /\ launch'.browsers = launch.browsers
               /\ launch'.launches = launch.launches
               /\ launch'.browserLaunchPromise = launch.browserLaunchPromise
        /\ (CloseBrowser /\ launch.launchedBrowser # 0) =>
               /\ launch'.closes[Len(launch'.closes)].browser = launch.launchedBrowser
               /\ ~launch'.closes[Len(launch'.closes)].settled
        /\ \A c \in DOMAIN launch'.closes : launch'.closes[c].result = "resolved"
      ]_vars

\* the browser process had exited before the first close(), which has
\* cleared the handle; the second close() found nothing to do
C23_Witness ==
    /\ Len(launch.closes) = 2
    /\ launch.closes[1].browser = 1 /\ launch.closes[1].settled
    /\ ~launch.closes[1].wasRunning
    /\ launch.closes[2].browser = 0 /\ launch.closes[2].settled
    /\ Len(launch.browsers) = 1
    /\ lastOp.op = "closeBrowser"
    /\ launch.launchedBrowser = 0
    /\ launch.calls = << >>

(* ---- C24 ------------------------------------------------------------------ *)
\* the executions that began before the scheduler was last (re)started and
\* whose entry is in activeRecordings
InFlightSinceBefore == {e \in ActiveExecs : running[e].stateGen < starts}

\* C24: restartScheduler leaves activeRecordings, the instances and their
\* AbortControllers, and the completed history as they are; a recording that
\* was in flight at a restart still has status recording, stopRecording with
\* its id and stopAllRecordings arm its controller, and when record() returns
\* it leaves the active set and heads the history with the status and error
\* of that outcome.
C24_RestartLeavesRecordings ==
    [][ /\ (\E cfg \in Configs : RestartScheduler(cfg)) =>
               /\ running' = running
               /\ active' = active
               /\ completed' = completed
        /\ \A e \in InFlightSinceBefore :
               /\ running[e].instance.status = "recording"
               /\ StopRecording(running[e].instance.id) => running'[e].aborted
               /\ StopAllRecordings => running'[e].aborted
               /\ \A outcome \in Outcomes : CompleteJob(e, outcome) =>
                      /\ e \notin {active'[id] : id \in DOMAIN active'}
                      /\ completed'[1].exec = e
                      /\ completed'[1].instance =
                             [running[e].instance EXCEPT !.status = FinalStatus(outcome),
                                                         !.error = FinalError(outcome)]
      ]_vars

\* a recording of Job1 was in flight when the configuration was replaced by
\* ConfigB; it was then stopped and has ended with an error, which is in the
\* history
C24_Witness ==
    /\ config = ConfigB
    /\ lastOp.op = "complete" /\ lastOp.ret = "error"
    /\ completed # << >>
    /\ completed[1].instance.jobName = Job1.name
    /\ completed[1].instance.status = "error"
    /\ running = << >>
    /\ jobStates[Job4.id].lastRun = NULL

(* ---- C25 ------------------------------------------------------------------ *)
\* C25: shutdown stops the timers and arms every active recording in its
\* first step, releases the browser only after the active set is empty or the
\* wait is over, and once it has stopped the scheduler no execution registers
\* a new instance.
C25_ShutdownOrder ==
    [][ /\ ShutdownBegins =>
               /\ tasks' = << >>
               /\ \A k \in DOMAIN timers' : \A id \in DOMAIN tasks : tasks[id] # k
               /\ \A e \in ActiveExecs : running'[e].aborted
        /\ quit'.pc \in {"running", "waiting"} => launch'.closes = << >> /\ conn' = conn
        /\ quit'.pc = "waiting" => now' < quit'.deadline
        /\ (quit.pc = "waiting" /\ quit'.pc = "closing") =>
               DOMAIN active = {} \/ now' >= quit.deadline
        /\ quit.pc # "running" => DOMAIN running' \subseteq DOMAIN running
      ]_vars

(* ---- C26 ------------------------------------------------------------------ *)
\* the tabs whose URL includes the job's urlPattern
Matching(job, tabs) ==
    IF job.urlPattern = NoString THEN {}
    ELSE {i \in DOMAIN tabs : Contains(tabs[i], job.urlPattern)}

\* C26: findPage returns the first open tab whose URL includes urlPattern
\* when urlPattern is set and a tab matches, opening nothing; otherwise, when
\* url is set, it opens one tab and returns it once the navigation to url has
\* settled; otherwise record() fails with the page-not-found message. A failed
\* navigation ends record() with a failure: findPage is not entered again.
C26_PageResolution ==
    [][ rec # NULL =>
          /\ \A tabs \in TabLists : PagesSettle(TRUE, tabs) =>
                 LET hits == Matching(rec.job, tabs)
                 IN  IF hits # {}
                     THEN /\ rec'.page # NULL
                          /\ rec'.page[1].tab \in hits
                          /\ \A i \in hits : rec'.page[1].tab <= i
                          /\ rec'.page[1].url = tabs[rec'.page[1].tab]
                          /\ ~rec'.opened /\ rec'.newTabs = 0
                          /\ rec'.result = NULL
                     ELSE IF rec.job.url # NoString
                     THEN rec'.pc = "newPage" /\ rec'.page = NULL /\ rec'.result = NULL
                     ELSE /\ rec'.pc = "returned"
                          /\ rec'.result = [success |-> FALSE, error |-> Some(PageNotFoundMessage),
                                            thrown |-> FALSE]
          /\ GotoSettles(TRUE) =>
                 /\ rec'.page = Some([tab |-> 0, url |-> rec.job.url])
                 /\ rec'.opened /\ rec'.newTabs = 1 /\ rec'.result = NULL
          /\ GotoSettles(FALSE) =>
                 /\ rec'.result # NULL /\ ~rec'.result.success
                 /\ rec'.pc \in {"closing", "returned"}
          /\ (rec.result # NULL /\ rec' # NULL) =>
                 /\ rec'.pc \in {"closing", "returned"}
                 /\ rec'.result = rec.result
                 /\ rec'.newTabs <= rec.newTabs
      ]_vars

\* Job3's pattern matched no open tab, so a tab was opened and navigated to
\* its url; the recording is about to set the viewport on it
C26_Witness ==
    /\ rec # NULL /\ rec.job = Job3
    /\ rec.pc = "viewport"
    /\ rec.opened /\ rec.page = Some([tab |-> 0, url |-> Job3.url])
    /\ lastOp.op = "goto"

(* ---- C27 ------------------------------------------------------------------ *)
\* C27: when record() returns, no tab that it opened is still open, unless
\* the close() it attempted failed; and close() is called only on a page that
\* this call opened, never on a tab that was matched by urlPattern.
C27_OpenedPagesAreClosed ==
    rec # NULL =>
        /\ (rec.pc = "returned" /\ ~(lastOp.op = "close" /\ lastOp.ret = FALSE)) =>
               rec.newTabs = 0
        /\ rec.pc = "closing" =>
               /\ rec.opened
               /\ rec.page # NULL /\ rec.page[1].tab = 0

(* ---- C28 ------------------------------------------------------------------ *)
\* the recorder is inside recordPage
InRecordPage == rec # NULL /\ rec.pc \in {"screenshot", "drain", "sleep", "procDone"}

\* C28: once the AbortController of the execution is armed no screenshot is
\* asked for any more; arming it changes nothing in the recorder; a screenshot
\* in flight at that moment settles as it would have, and its frame is
\* written and counted unless the encoder's input is destroyed; a sleep in
\* progress lasts to its end, and the loop ends at the test that follows it.
C28_CancellationAtLoopTop ==
    [][ (rec # NULL /\ rec.exec \in DOMAIN running) =>
          /\ (Aborted /\ rec' # NULL) =>
                 /\ rec'.attempts = rec.attempts
                 /\ rec'.pc # "screenshot" \/ rec.pc = "screenshot"
          /\ (\E id \in DOMAIN active : StopRecording(id)) => rec' = rec
          /\ (Aborted /\ rec.pc = "screenshot" /\ ~rec.destroyed) =>
                 \A lat \in Lats, writeOk \in BOOLEAN :
                     ScreenshotSettles(lat, "jpeg", writeOk) =>
                         /\ rec'.totalFrames = rec.totalFrames + 1
                         /\ rec'.pc \in {"drain", "sleep", "procDone"}
          /\ (Aborted /\ rec.pc = "sleep" /\ rec' # NULL /\ rec'.pc # "sleep") =>
                 now' = rec.wake /\ rec'.pc = "procDone"
      ]_vars

\* the recording was stopped while its second screenshot was in flight; the
\* screenshot has settled and its frame has been written
C28_Witness ==
    /\ InRecordPage
    /\ running[rec.exec].aborted
    /\ lastOp.op = "screenshot" /\ lastOp.arg = "jpeg"
    /\ rec.attempts = 2 /\ rec.totalFrames = 2

(* ---- C29 ------------------------------------------------------------------ *)
\* C29: in every state the instances in activeRecordings have status
\* recording and those in completedRecordings have status success or error;
\* the instance of an execution under way keeps status recording, it gets its
\* final status in the step that moves it to the history, and an entry of the
\* history never changes.
C29_StatusStateMachine ==
    [][ /\ \A id \in DOMAIN active' : running'[active'[id]].instance.status = "recording"
        /\ \A k \in DOMAIN completed' : completed'[k].instance.status \in {"success", "error"}
        /\ \A e \in DOMAIN running :
               IF e \in DOMAIN running'
               THEN /\ running[e].instance.status = "recording"
                    /\ running'[e].instance = running[e].instance
                    /\ EntriesOf(completed', e) = {}
               ELSE /\ EntriesOf(completed', e) = {1}
                    /\ completed'[1].instance.status \in {"success", "error"}
        /\ \A j \in DOMAIN completed, k \in DOMAIN completed' :
               completed'[k].seq = completed[j].seq => completed'[k] = completed[j]
      ]_vars

\* two recordings have ended, one with success and one with an error
C29_Witness ==
    /\ Len(completed) = 2
    /\ completed[1].instance.status = "success"
    /\ completed[2].instance.status = "error"
    /\ completed[2].instance.error # NULL
    /\ running = << >>

(* ---- C30 ------------------------------------------------------------------ *)
\* the executions whose AbortController is armed in this step
Armed == {e \in DOMAIN running \cap DOMAIN running' : running'[e].aborted # running[e].aborted}

\* C30: an execution starts with a controller of its own that is not armed,
\* whatever happened to earlier executions of the same job; a controller is
\* armed only by stopRecording or stopAllRecordings and never disarmed;
\* stopRecording(id) arms the controller of the entry under id and no other.
C30_OneHandlePerExecution ==
    [][ /\ \A e \in (DOMAIN running') \ (DOMAIN running) : ~running'[e].aborted
        /\ \A e \in Armed :
               /\ running'[e].aborted
               /\ lastOp'.op \in {"stopOne", "stopAll"}
               /\ lastOp'.op = "stopOne" =>
                      lastOp'.arg \in DOMAIN active /\ active[lastOp'.arg] = e
        /\ lastOp'.op = "stopOne" => Cardinality(Armed) <= 1
      ]_vars

\* two executions of the same job are under way; one was stopped, the other
\* one's controller is not armed
C30_Witness ==
    /\ lastOp.op = "stopOne"
    /\ \E e1, e2 \in DOMAIN running :
           /\ e1 # e2
           /\ running[e1].job.id = running[e2].job.id
           /\ running[e1].aborted
           /\ ~running[e2].aborted

(* ---- C31 ------------------------------------------------------------------ *)
\* C31: two executions under way at the same time have different instance
\* ids, so each has an entry of its own in activeRecordings.
C31_ActiveIdsDistinct ==
    \A e1, e2 \in DOMAIN running :
        e1 # e2 => running[e1].instance.id # running[e2].instance.id

(* ---- C32 ------------------------------------------------------------------ *)
\* the JobState object that execution e fetched when it began is still the
\* one in jobStates: no stopScheduler or startScheduler ran since
StateKept(e) ==
    /\ running[e].job.id \in DOMAIN jobStates
    /\ jobStates[running[e].job.id].gen = running[e].stateGen

\* C32: when a recording completes and the scheduler was not stopped or
\* restarted during it, the job's JobState has lastRun equal to the
\* instance's startedAt, lastResult equal to the instance's final status,
\* lastError equal to the error message on error and null on success, and
\* nextRun taken from the job's timer, null when it has none.
C32_CompletionUpdatesJobState ==
    [][\A e \in DOMAIN running, outcome \in Outcomes :
          (CompleteJob(e, outcome) /\ StateKept(e)) =>
              LET id == running[e].job.id
                  st == jobStates'[id]
              IN  /\ st.lastRun = Some(running[e].instance.startedAt)
                  /\ st.lastResult = Some(completed'[1].instance.status)
                  /\ st.lastError = completed'[1].instance.error
                  /\ (outcome = "success") = (st.lastError = NULL)
                  /\ st.nextRun = IF id \in DOMAIN tasks THEN Some("next") ELSE NULL
      ]_vars

(* ---- C33 ------------------------------------------------------------------ *)
\* C33: when a recording that was in flight at a restart completes and its
\* job is still configured, the JobState that getJobStates returns for the
\* job id shows the outcome: lastResult, and lastError on failure.
C33_OutcomeVisibleAfterRestart ==
    [][\A e \in DOMAIN running, outcome \in Outcomes :
          (/\ CompleteJob(e, outcome)
           /\ running[e].stateGen < starts
           /\ running[e].job.id \in DOMAIN jobStates) =>
              LET st == jobStates'[running[e].job.id]
              IN  /\ st.lastResult = Some(FinalStatus(outcome))
                  /\ st.lastError = FinalError(outcome)
      ]_vars

(* ---- C34 ------------------------------------------------------------------ *)
\* C34: the loop waits for 'drain' exactly when a frame was written and write
\* returned false; the wait ends with the drain, before the drain timeout,
\* and the loop goes on to its pacing and its next pass, or it ends with the
\* timeout after DRAIN_TIMEOUT ms, and then the loop is over: the input of the
\* encoder is ended and no further screenshot is asked for.
C34_DrainOrTimeout ==
    [][ /\ (rec # NULL /\ rec' # NULL /\ rec.pc # "drain" /\ rec'.pc = "drain") =>
               /\ rec.pc = "screenshot"
               /\ lastOp' = Op("screenshot", "jpeg", FALSE)
               /\ rec'.totalFrames = rec.totalFrames + 1
        /\ (rec # NULL /\ rec.pc = "drain" /\ rec'.pc # "drain") =>
               /\ lastOp'.op = "drain"
               /\ lastOp'.ret =>
                      /\ now' - now < DRAIN_TIMEOUT
                      /\ rec' = Pace([rec EXCEPT !.slowest = rec'.slowest], now', Aborted)
                      /\ rec'.pc \in {"sleep", "screenshot", "procDone"}
                      /\ rec'.pc = "procDone" =>
                             \/ rec.exit # NULL
                             \/ Aborted
                             \/ now' - rec.startTime >= 1000 * rec.job.durationSeconds
               /\ ~lastOp'.ret =>
                      /\ now' = now + DRAIN_TIMEOUT
                      /\ rec'.pc = "procDone"
                      /\ rec'.ended = ~rec.destroyed
                      /\ rec'.attempts = rec.attempts
                      /\ rec'.totalFrames = rec.totalFrames
        /\ (rec # NULL /\ rec.pc = "procDone" /\ rec' # NULL) =>
               /\ rec'.pc \notin {"screenshot", "drain", "sleep"}
               /\ rec'.attempts = rec.attempts
               /\ rec'.totalFrames = rec.totalFrames
      ]_vars

\* a wait for 'drain' has ended with the timeout while the encoder was
\* running and the recording was neither cancelled nor past its duration
C34_Witness ==
    /\ rec # NULL /\ rec.pc = "procDone"
    /\ lastOp = Op("drain", NULL, FALSE)
    /\ rec.exit = NULL
    /\ ~Aborted
    /\ now - rec.startTime < 1000 * rec.job.durationSeconds
    /\ rec.totalFrames >= 1

(* ---- C35 ------------------------------------------------------------------ *)
\* C35: recordPage returns or throws only from its await of procDone, after
\* the encoder's input was ended (or was destroyed) and the encoder has
\* closed or failed to start, the zero-frames failure included; and while
\* the encoder of a recording has not ended the instance is in the active
\* set.
C35_ReturnsAfterEncoderEnds ==
    [][ /\ (InRecordPage /\ (rec' = NULL \/ rec'.pc \notin {"screenshot", "drain", "sleep", "procDone"})) =>
               /\ rec.pc = "procDone"
               /\ rec.exit # NULL
               /\ rec.ended \/ rec.destroyed
               /\ rec' # NULL
        /\ (rec' # NULL /\ rec'.result # NULL /\ rec'.result.error = Some(ZeroFramesMessage)) =>
               rec'.exit # NULL /\ (rec'.ended \/ rec'.destroyed)
        /\ (InRecordPage /\ rec.exit = NULL) => rec.exec \in ActiveExecs
      ]_vars

(* ---- C36 ------------------------------------------------------------------ *)
\* cancellation has been armed on the recording under way
CancelArmed == rec # NULL /\ running[rec.exec].aborted

\* the recording has left the active set and is in the completed history
Ended(e) ==
    /\ e \notin DOMAIN running
    /\ e \notin ActiveExecs
    /\ \E i \in DOMAIN completed : completed[i].exec = e

\* C36: a recording on which cancellation has been armed eventually leaves
\* the active set and appears in the completed history, whatever it was doing
\* when it was armed (a browser call, a wait for 'drain', a sleep, the wait
\* for the encoder).
C36_CancelledRecordingEnds == CancelArmed ~> Ended(1)

\* a cancelled recording has returned before its duration was over, with
\* frames captured and the encoder closed
C36_Witness ==
    /\ CancelArmed
    /\ rec.pc = "returned"
    /\ rec.totalFrames >= 1
    /\ rec.exit = Closed(0)
    /\ now - rec.startTime < 1000 * rec.job.durationSeconds

(* ---- C37 ------------------------------------------------------------------ *)
\* C37: every Cron that has not been stopped is the one that tasks holds for
\* its job id, so a job id has at most one live timer and after
\* stopScheduler none is left.
C37_NoTimerLeak ==
    /\ \A k \in DOMAIN timers :
           timers[k].job.id \in DOMAIN tasks /\ tasks[timers[k].job.id] = k
    /\ lastOp.op = "stop" => timers = << >>

(* ---- C38 ------------------------------------------------------------------ *)
\* C38: an attempt whose connect is rejected, or whose timer fires first,
\* settles with a "Failed to connect" error for every call that returned its
\* promise, and leaves connectedBrowser and browserConnectPromise null, so
\* that the next ensureConnectedBrowser call issues a new attempt; the timer
\* fires no earlier than CONNECT_TIMEOUT after the attempt began; a Browser
\* that connect produces after the timer has fired is neither cached nor
\* returned by any call.
C38_FailedAttemptLeavesNothing ==
    [][ /\ \A a \in DOMAIN conn.attempts :
               /\ (FinallyRuns(a) /\ conn.attempts[a].race \in {"failed", "timeout"}) =>
                      LET out == conn'.attempts[a].outcome[1]
                      IN  /\ ~out.ok /\ out.browser = 0
                          /\ out.error # NULL
                          /\ out.error[1].text = "Failed to connect to browser at"
                          /\ conn'.connectedBrowser = 0
                          /\ conn'.browserConnectPromise = 0
                          /\ PendingAttempts' = {}
               /\ TimeoutFires(a) => now >= conn.attempts[a].deadline
               /\ conn'.attempts[a].race = "timeout" =>
                      LET b == conn'.attempts[a].browser
                      IN  /\ ~conn'.attempts[a].cached
                          /\ b # 0 =>
                                 /\ conn'.connectedBrowser # b
                                 /\ ~conn'.browsers[b].listening
                                 /\ \A c \in DOMAIN conn'.calls : conn'.calls[c].browser # b
        /\ (EnsureConnectedBrowser /\ PendingAttempts = {} /\ ~CachedConnected) =>
               /\ Len(conn'.attempts) = Len(conn.attempts) + 1
               /\ conn'.calls[Len(conn'.calls)].issued
               /\ conn'.browserConnectPromise = Len(conn'.attempts)
      ]_vars

\* two calls shared an attempt that ended at its ceiling; its connection came
\* after that; the third call has issued a second attempt
C38_Witness ==
    /\ Len(conn.calls) = 3 /\ Len(conn.attempts) = 2
    /\ conn.calls[1].attempt = 1 /\ conn.calls[2].attempt = 1 /\ conn.calls[3].attempt = 2
    /\ conn.calls[3].issued
    /\ conn.attempts[1].race = "timeout"
    /\ conn.attempts[1].connect = "resolved"
    /\ conn.attempts[1].outcome # NULL

QuietAfterClose(c) ==
    /\ launch.closes[c].settled
    /\ Len(launch.calls) = launch.closes[c].ensures
    /\ Len(launch.launches) = launch.closes[c].launches
    /\ \A l \in DOMAIN launch.launches : launch.launches[l].outcome # NULL

\* C40: once closeBrowser() has returned and the launches that were pending
\* have settled, with no ensureBrowser call since, launchedBrowser holds no
\* running Browser and no launched browser process is running.
C40_CloseLeavesNoProcess ==
    \A c \in DOMAIN launch.closes :
        QuietAfterClose(c) =>
            /\ launch.launchedBrowser = 0 \/ ~launch.browsers[launch.launchedBrowser].running
            /\ \A b \in DOMAIN launch.browsers : ~launch.browsers[b].running

====
